---- MODULE Spec2Model ----
(***************************************************************************)
(* A model of the data-resolution layer (LinkedDataCache and               *)
(* CachedDataProvider) and of the field readiness machinery                *)
(* (FieldComponentSwitchDirective and FieldContextProvider) of             *)
(* schema-ui-angular-fields.                                               *)
(***************************************************************************)
EXTENDS Integers, Sequences, FiniteSets, TLC

(***************************************************************************)
(* Bounds of the model.                                                    *)
(***************************************************************************)
\* Promise objects that are created in one run.
MaxPromises == 3
\* Longest cache array explored when LinkedDataCache is driven directly.
MaxCacheLen == 3

(***************************************************************************)
(* The schemas the agents work on: two schemas with two links each.        *)
(***************************************************************************)
SchemaIds == {"schemaA", "schemaB"}
LinkNames == {"list", "read-items"}
Props == {"/x", "/y"}
undefined == "undefined"

\* link.targetSchema.$ref of the link, undefined when the link has no targetSchema.
linkTargetSchemaId(schemaId, linkName) ==
    CASE schemaId = "schemaA" /\ linkName = "list" -> "schemaB"
      [] schemaId = "schemaA" /\ linkName = "read-items" -> undefined
      [] schemaId = "schemaB" /\ linkName = "list" -> "schemaA"
      [] OTHER -> "schemaB"

\* Object.values(agent.schema.getLinkUriTemplatePointers(link)).
linkPointers(schemaId, linkName) ==
    CASE schemaId = "entity" -> {"/name", "/parentId"}
      [] schemaId = "schemaA" /\ linkName = "list" -> {"/x"}
      [] schemaId = "schemaA" /\ linkName = "read-items" -> {"/y"}
      [] schemaId = "schemaB" /\ linkName = "list" -> {}
      [] OTHER -> {"/x", "/y"}

VARIABLES
    rev,        \* which of the two revisions of LinkedDataCache is in use
    cache,      \* LinkedDataCache.cache: the array of cached items
    promises,   \* the promises created by resolveDataFromAgent, by id
    last        \* the most recent call on the cache or the provider and what it returned

cacheVars == <<rev, cache, promises, last>>

VARIABLES
    mapper,     \* the SimplifiedResourceMapper: field.data, field.targetIdentity and the schema
    items,      \* the items handed to transform
    resources,  \* what transform returned
    parent,     \* the contexts above the context at hand, the nearest last, as they were left
    linked,     \* the LinkedDataProvider of one field and the stream it handed out
    agents      \* CachedDataProvider.agents and the agent promises it handed out

mapperVars == <<mapper, items, resources, parent, agents>>

\* What lies outside the context at hand.
outerVars == <<mapperVars, linked>>

\* The LinkedDataProvider as constructed: nothing memoized, no stream handed out.
\* A promise is known by its id, null is 0; a link context is the sequence of
\* the values of the template variables.
NoStream ==
    [stream |-> "none", observed |-> {}, armed |-> FALSE, elapsed |-> 0,
     burst |-> FALSE, quiet |-> 0, queue |-> <<>>, active |-> 0, activeContext |-> <<>>,
     data |-> 0, mapper |-> "none", agent |-> "none", emitted |-> <<>>]

\* CachedDataProvider.agents as constructed: no agent promise under any key.
\* `made` are the agent promises created so far, by id; `call` is the last
\* call of resolveAgent or resolveAgentChild and the promise it returned.
NoAgents ==
    [memo |-> <<>>, made |-> <<>>,
     call |-> [op |-> "none", key |-> "", force |-> "undefined", promise |-> 0,
               fresh |-> FALSE, stored |-> FALSE, error |-> FALSE]]

\* No mapper was made, the context has no parent, no field asked for linked
\* data and no agent was resolved.
NoMapper ==
    /\ mapper = "none" /\ items = <<>> /\ resources = [called |-> FALSE, list |-> <<>>]
    /\ parent = <<>>
    /\ linked = NoStream
    /\ agents = NoAgents

VARIABLES
    mapped,             \* FieldContextProvider.mapped: all fieldsets and fields
    mode,               \* FieldContextProvider.mode
    initialValues,      \* FieldContextProvider.initialValues, by pointer; undefined = absent
    visible,            \* FieldContextProvider._visible: the pointers to display
    fieldVisible,       \* FormFieldViewModel.visible of every mapped field
    sets,               \* FieldContextProvider.sets: the visible fieldsets and fields
    instance,           \* FormFieldViewModel.instance of every mapped field
    directive,          \* the fieldSwitch directive of every field, as far as it got
    onCreate,           \* what the directive of every field last emitted on onCreate
    onCreateBound,      \* whether the host stores the value of onCreate as the instance
    readyTimer,         \* the debounce timer behind fieldReady$ is running
    lastReadyState,     \* lastReadyState of the fieldReady$ subscription
    readyEvent,         \* what the last step emitted on ready$
    validateOnceReady,  \* FieldContextProvider.validateOnceReady
    fieldValidation,    \* FormFieldViewModel.validation of every mapped field
    aliased,            \* sets still is the array of the mapped fieldset objects
    pending,            \* the field validations that have not settled yet
    runs,               \* the validateFieldset calls that have not been resolved yet
    validating,         \* a validate() call is waiting for its fieldsets
    changePending,      \* the fields whose debounced change is yet to reach fieldChanged$
    buffer,             \* the fieldsets that bufferTime holds for fieldsetChanged$
    closed,             \* destroy() has closed the subscriptions and completed the subjects
    value,              \* BaseFormField.value of the instance of every field
    initialValue,       \* BaseFormField.initialValue of the instance of every field
    dirty,              \* BaseFormField.dirty of the instance of every field
    answer,             \* what getData, getPatchOperations or isDirty last returned to the host
    registeredFieldTypes \* the field types FormFieldService has a component for

\* What the construction of the form fixes.
ctorVars == <<mode, initialValues, onCreateBound, validateOnceReady, registeredFieldTypes>>

\* The validation state of the form; the mapped fieldsets carry their result.
validationVars == <<mapped, fieldValidation, aliased, pending, runs, validating,
                    changePending, buffer>>

\* The state of the field components.
dataVars == <<value, initialValue, dirty>>

\* What the host holds.
hostVars == <<answer>>

\* The host has not asked for the data yet.
NoAnswer == [call |-> "none", includeTests |-> FALSE, data |-> <<>>, ops |-> <<>>,
             dirty |-> FALSE, error |-> FALSE]

formVars == <<hostVars, ctorVars, dataVars, validationVars, visible, fieldVisible, sets,
              instance, directive, onCreate, readyTimer, lastReadyState, readyEvent, closed>>

(***************************************************************************)
(* LinkedDataCache.                                                        *)
(***************************************************************************)
\* fetch answers null on a miss; promise ids start at 1.
null == 0

RemoveAt(c, i) == SubSeq(c, 1, i - 1) \o SubSeq(c, i + 1, Len(c))

CacheItem(schemaId, link, targetSchemaId, properties, state) ==
    [schemaId |-> schemaId, link |-> link, targetSchemaId |-> targetSchemaId,
     properties |-> properties, state |-> state]

\* The selectors handed to the removal loops.
removeSelector(item, schemaId, link) ==
    item.schemaId = schemaId /\ item.link = link

purgeSelector(item, schemaId) ==
    item.schemaId = schemaId \/ item.targetSchemaId = schemaId

invalidateSelector(item, schemaId, hasProperties, properties) ==
    item.schemaId = schemaId
        /\ (~hasProperties \/ \E x \in item.properties : x \in properties)

\* for (i = 0; i < cache.length; i++) if (selected) cache.splice(i, 1);
\* M is the set of items the selector selects. After a splice the index still
\* advances, so the item that moved into position i is not looked at.
RECURSIVE spliceLoop(_, _, _)
spliceLoop(c, i, M) ==
    IF i > Len(c) THEN c
    ELSE IF c[i] \in M THEN spliceLoop(RemoveAt(c, i), i + 1, M)
    ELSE spliceLoop(c, i + 1, M)

\* removeBy keeps in `filtered` the items for which the selector is true and
\* replaces the cache by `filtered` when the lengths differ.
removeBy(c, M) ==
    LET filtered == SelectSeq(c, LAMBDA item : item \in M)
        removed == Len(c) - Len(filtered)
    IN  IF removed > 0 THEN filtered ELSE c

\* The items held in the cache array.
Items(c) == {c[i] : i \in 1..Len(c)}

removeSplice(c, schemaId, link) ==
    spliceLoop(c, 1, {item \in Items(c) : removeSelector(item, schemaId, link)})

purgeSplice(c, schemaId) ==
    spliceLoop(c, 1, {item \in Items(c) : purgeSelector(item, schemaId)})

invalidateSplice(c, schemaId, hasProperties, properties) ==
    spliceLoop(c, 1, {item \in Items(c) : invalidateSelector(item, schemaId, hasProperties, properties)})

removeFiltered(c, schemaId, link) ==
    removeBy(c, {item \in Items(c) : removeSelector(item, schemaId, link)})

purgeFiltered(c, schemaId) ==
    removeBy(c, {item \in Items(c) : purgeSelector(item, schemaId)})

invalidateFiltered(c, schemaId, hasProperties, properties) ==
    removeBy(c, {item \in Items(c) : invalidateSelector(item, schemaId, hasProperties, properties)})

remove(c, schemaId, link) ==
    IF rev = "splice" THEN removeSplice(c, schemaId, link)
    ELSE removeFiltered(c, schemaId, link)

purge(c, schemaId) ==
    IF rev = "splice" THEN purgeSplice(c, schemaId) ELSE purgeFiltered(c, schemaId)

invalidate(c, schemaId, hasProperties, properties) ==
    IF rev = "splice" THEN invalidateSplice(c, schemaId, hasProperties, properties)
    ELSE invalidateFiltered(c, schemaId, hasProperties, properties)

push(c, schemaId, link, targetSchemaId, properties, state) ==
    Append(remove(c, schemaId, link),
           CacheItem(schemaId, link, targetSchemaId, properties, state))

\* The first item of the key; the later revision also compares the target
\* schema id when one is given, the earlier one has no such parameter.
fetch(c, schemaId, link, targetSchemaId) ==
    LET hits == {i \in 1..Len(c) :
                    /\ c[i].schemaId = schemaId
                    /\ c[i].link = link
                    /\ \/ rev = "splice"
                       \/ c[i].targetSchemaId = targetSchemaId
                       \/ targetSchemaId = undefined}
    IN  IF hits = {} THEN null
        ELSE c[CHOOSE i \in hits : \A j \in hits : i <= j].state

clear(c) == SubSeq(c, 1, 0)

PromiseIds == 1..MaxPromises

Call(op, schemaId, link, force, promise, fresh) ==
    [op |-> op, schemaId |-> schemaId, link |-> link, force |-> force,
     promise |-> promise, fresh |-> fresh]

NoCall == Call("none", undefined, undefined, FALSE, null, FALSE)

\* A caller stores a promise of its own under the key of a link.
Push(schemaId, link, state) ==
    LET pushed == push(cache, schemaId, link, linkTargetSchemaId(schemaId, link),
                       linkPointers(schemaId, link), state)
    IN  /\ Len(pushed) <= MaxCacheLen
        /\ cache' = pushed
        /\ last' = Call("push", schemaId, link, FALSE, state, FALSE)
        /\ UNCHANGED <<outerVars, formVars, rev, promises>>

Remove(schemaId, link) ==
    /\ cache' = remove(cache, schemaId, link)
    /\ last' = Call("remove", schemaId, link, FALSE, null, FALSE)
    /\ UNCHANGED <<outerVars, formVars, rev, promises>>

Purge(schemaId) ==
    /\ cache' = purge(cache, schemaId)
    /\ last' = Call("purge", schemaId, undefined, FALSE, null, FALSE)
    /\ UNCHANGED <<outerVars, formVars, rev, promises>>

Invalidate(schemaId, hasProperties, properties) ==
    /\ cache' = invalidate(cache, schemaId, hasProperties, properties)
    /\ last' = Call(IF hasProperties THEN "invalidate" ELSE "invalidateAll",
                    schemaId, undefined, FALSE, null, FALSE)
    /\ UNCHANGED <<outerVars, formVars, rev, promises>>

Clear ==
    /\ cache' = clear(cache)
    /\ last' = Call("clear", undefined, undefined, FALSE, null, FALSE)
    /\ UNCHANGED <<outerVars, formVars, rev, promises>>

(***************************************************************************)
(* CachedDataProvider.                                                     *)
(***************************************************************************)
\* linkName.startsWith('list') || linkName.startsWith('collection')
isListLink(linkName) == linkName \in {"list", "collection"}

\* The promise resolveDataFromAgent returns: the agent's list or read call with
\* its continuation. It settles as the agent call settles.
resolveDataFromAgent(schemaId, linkName, context, forced) ==
    [schemaId |-> schemaId, link |-> linkName,
     call |-> IF isListLink(linkName) THEN "list" ELSE "read",
     context |-> context, forced |-> forced, status |-> "pending"]

\* resolveDataThrough(agent, linkName, pntr, context, forceReload) on the agent
\* of schemaId, as far as the cache and the agent go. A link name that is not
\* on the schema is answered with a rejected promise that is neither cached
\* nor an agent call.
resolveDataThroughContext(schemaId, linkName, context, forceReload) ==
    IF linkName \notin LinkNames
    THEN /\ last' = Call("resolveDataThrough", schemaId, linkName, forceReload, null, FALSE)
         /\ UNCHANGED <<rev, cache, promises>>
    ELSE LET targetSchemaId == linkTargetSchemaId(schemaId, linkName)
             state == fetch(cache, schemaId, linkName, targetSchemaId)
         IN  IF ~forceReload /\ state # null
             THEN /\ last' = Call("resolveDataThrough", schemaId, linkName, forceReload,
                                  state, FALSE)
                  /\ UNCHANGED <<rev, cache, promises>>
             ELSE LET removed == IF forceReload THEN remove(cache, schemaId, linkName)
                                 ELSE cache
                      result == Len(promises) + 1
                  IN  /\ Len(promises) < MaxPromises
                      /\ promises' = Append(promises,
                            resolveDataFromAgent(schemaId, linkName, context, forceReload))
                      /\ cache' = push(removed, schemaId, linkName, targetSchemaId,
                                       linkPointers(schemaId, linkName), result)
                      /\ last' = Call("resolveDataThrough", schemaId, linkName,
                                      forceReload, result, TRUE)
                      /\ UNCHANGED rev

\* resolveDataThrough called by a component of its own, without a context.
resolveDataThrough(schemaId, linkName, forceReload) ==
    /\ resolveDataThroughContext(schemaId, linkName, <<>>, forceReload)
    /\ UNCHANGED <<outerVars, formVars>>

\* The agent call behind promise p settles; the continuation hands the result
\* or the error on to the promise that resolveDataThrough returned.
Settle(p, outcome) ==
    /\ p \in DOMAIN promises
    /\ promises[p].status = "pending"
    /\ promises' = [promises EXCEPT ![p].status = outcome]
    /\ UNCHANGED <<outerVars, formVars, rev, cache, last>>

vars == <<cacheVars, formVars, outerVars>>

\* No form is open.
NoForm ==
    /\ mapped = <<>>
    /\ mode = "edit"
    /\ initialValues = <<>>
    /\ closed = FALSE
    /\ value = <<>>
    /\ initialValue = <<>>
    /\ dirty = <<>>
    /\ visible = {}
    /\ fieldVisible = <<>>
    /\ sets = <<>>
    /\ instance = <<>>
    /\ directive = <<>>
    /\ onCreate = <<>>
    /\ onCreateBound = FALSE
    /\ registeredFieldTypes = {}
    /\ readyTimer = FALSE
    /\ lastReadyState = FALSE
    /\ readyEvent = "none"
    /\ validateOnceReady = FALSE
    /\ fieldValidation = <<>>
    /\ aliased = TRUE
    /\ pending = <<>>
    /\ runs = <<>>
    /\ validating = FALSE
    /\ changePending = {}
    /\ buffer = {}
    /\ answer = NoAnswer

InitCache ==
    /\ rev \in {"splice", "removeBy"}
    /\ cache = <<>>
    /\ promises = <<>>
    /\ last = NoCall
    /\ NoForm
    /\ NoMapper

\* LinkedDataCache driven directly.
NextCache ==
    \/ \E schemaId \in SchemaIds, link \in LinkNames, state \in PromiseIds :
            Push(schemaId, link, state)
    \/ \E schemaId \in SchemaIds, link \in LinkNames : Remove(schemaId, link)
    \/ \E schemaId \in SchemaIds : Purge(schemaId)
    \/ \E schemaId \in SchemaIds, properties \in SUBSET Props :
            Invalidate(schemaId, TRUE, properties)
    \/ \E schemaId \in SchemaIds : Invalidate(schemaId, FALSE, {})
    \/ Clear

SpecCache == InitCache /\ [][NextCache]_vars

\* One CachedDataProvider and the agents it calls.
NextProvider ==
    \/ \E schemaId \in SchemaIds, linkName \in LinkNames \cup {"unknown"},
           forceReload \in BOOLEAN :
            resolveDataThrough(schemaId, linkName, forceReload)
    \/ \E p \in PromiseIds, outcome \in {"resolved", "rejected"} : Settle(p, outcome)

SpecProvider == InitCache /\ [][NextProvider]_vars

(***************************************************************************)
(* FieldContextProvider: the mapped form and its visibility.               *)
(***************************************************************************)
\* createPristineFieldvalidationResult and the other validation results.
Pristine == [valid |-> TRUE, level |-> "pristine", message |-> "null"]

Success == [valid |-> TRUE, level |-> "success", message |-> "null"]

Failure(message) == [valid |-> FALSE, level |-> "error", message |-> message]

\* pointer.split('/') without its empty parts, for the pointers of the fields.
segments(pointer) ==
    CASE pointer = "/name" -> <<"name">>
      [] pointer = "/parentId" -> <<"parentId">>
      [] pointer = "/title" -> <<"title">>
      [] pointer = "/code" -> <<"code">>
      [] pointer = "/tags" -> <<"tags">>
      [] pointer = "/note" -> <<"note">>
      [] pointer = "/address/street" -> <<"address", "street">>
      [] pointer = "/address/id" -> <<"address", "id">>
      [] pointer = "/address" -> <<"address">>
      [] pointer = "/id" -> <<"id">>
      [] OTHER -> <<>>

\* '/' + segments.join('/').
joinPointer(segs) ==
    CASE segs = <<>> -> "/"
      [] Len(segs) = 1 -> "/" \o segs[1]
      [] OTHER -> "/" \o segs[1] \o "/" \o segs[2]

\* _.intersection(...arrays): the values of the first array found in all others.
intersection(arrays) ==
    IF Len(arrays) = 0 THEN <<>>
    ELSE SelectSeq(arrays[1], LAMBDA v :
            \A k \in 1..Len(arrays) : \E m \in 1..Len(arrays[k]) : arrays[k][m] = v)

\* A schema with a default fieldset and a fieldset for the street of the address.
addressForm ==
    << [id |-> "entity_default", fields |-> <<"/name", "/parentId">>],
       [id |-> "entity_address", fields |-> <<"/address/street">>] >>

\* A schema with two fieldsets of unrelated properties and one for the street.
twoRootForm ==
    << [id |-> "entity_default", fields |-> <<"/name", "/parentId">>],
       [id |-> "entity_extra", fields |-> <<"/title", "/code">>],
       [id |-> "entity_address", fields |-> <<"/address/street">>] >>

\* A schema with a note that has a default, next to the name and the street.
noteForm ==
    << [id |-> "entity_default", fields |-> <<"/name", "/note">>],
       [id |-> "entity_address", fields |-> <<"/address/street">>] >>

\* A schema with a required list of tags next to the name.
tagsForm == << [id |-> "entity_default", fields |-> <<"/name", "/tags">>] >>

\* The fieldset of the schema as a FormFieldSet: its pointer is what the
\* pointers of its fields have in common.
_mapFieldsetFromSchema(fields, fieldsetId) ==
    [id |-> fieldsetId,
     pointer |-> joinPointer(intersection([i \in 1..Len(fields) |-> segments(fields[i])])),
     validation |-> Pristine,
     fields |-> fields]

\* _mapSchemaToFieldsets: the fieldsets of the schema, those with pointer '/'
\* sorted to the top; fields are named by their JSON pointers.
_mapSchemaToFieldsets(fieldsets) ==
    LET all == [i \in 1..Len(fieldsets) |->
                    _mapFieldsetFromSchema(fieldsets[i].fields, fieldsets[i].id)]
    IN  SelectSeq(all, LAMBDA x : x.pointer = "/") \o
        SelectSeq(all, LAMBDA x : x.pointer # "/")

Fields == UNION {{mapped[i].fields[j] : j \in 1..Len(mapped[i].fields)} : i \in 1..Len(mapped)}

\* field.field.type of the descriptor of a field.
fieldType(pointer) ==
    IF pointer \in {"/parentId", "/title", "/code"} THEN "dropdown" ELSE "text"

\* FormFieldService.getFieldComponentByName(name) answers a component.
getFieldComponentByName(name) == name \in registeredFieldTypes

\* The steps of applyFieldContextChange that can fail for a field type without
\* a usable component: the lookup, the injector bindings, the factory.
DirectiveErrors == {"noComponent", "noBindings", "noFactory"}

\* isFieldReady with the test isFieldAvailable uses: only undefined is not ready.
isFieldReadyNullCounts(field) ==
    ~fieldVisible[field] \/ instance[field] # "undefined"

\* Whether the field has an instance: undefined (still initializing) and null
\* (not available) are both not ready; a hidden field always is.
isFieldReady(field) ==
    ~fieldVisible[field] \/ (instance[field] # "null" /\ instance[field] # "undefined")

isReady ==
    \A i \in 1..Len(sets) : \A j \in 1..Len(sets[i].fields) :
        isFieldReady(sets[i].fields[j])

\* find / findByPointer look through the visible fieldsets only.
findByPointer(pointer) ==
    IF \E i \in 1..Len(sets) : \E j \in 1..Len(sets[i].fields) :
            sets[i].fields[j] = pointer
    THEN pointer ELSE "null"

\* changeFieldVisibility that keeps the fieldsets without a visible field.
changeFieldVisibilityKeepsEmpty(isVisible) ==
    [i \in 1..Len(mapped) |->
        [mapped[i] EXCEPT !.fields = SelectSeq(@, LAMBDA y : isVisible[y])]]

\* The sets changeFieldVisibility builds from the visibility of the fields.
changeFieldVisibility(isVisible) ==
    LET filtered == [i \in 1..Len(mapped) |->
                        [mapped[i] EXCEPT
                            !.fields = SelectSeq(@, LAMBDA y : isVisible[y])]]
    IN  SelectSeq(filtered, LAMBDA x : Len(x.fields) > 0)

\* set visible(val) without the meaning of the empty list.
SetVisibleByMembership(val) ==
    /\ visible' = val
    /\ fieldVisible' = [x \in Fields |-> x \in val]
    /\ sets' = changeFieldVisibility(fieldVisible')
    /\ aliased' = FALSE
    /\ runs' = [r \in DOMAIN runs |->
                    IF runs[r].target = "sets" THEN [runs[r] EXCEPT !.target = "orphan"]
                    ELSE runs[r]]
    /\ buffer' = {IF b.target = "sets"
                   THEN [set |-> b.set, target |-> "orphan",
                         object |-> sets[CHOOSE i \in 1..Len(sets) : sets[i].id = b.set]]
                   ELSE b : b \in buffer}
    /\ readyEvent' = "none"
    /\ UNCHANGED <<outerVars, cacheVars, hostVars, ctorVars, dataVars, mapped, fieldValidation, pending,
                   validating, changePending, instance, directive, onCreate,
                   readyTimer, lastReadyState, closed>>

\* set visible(val) for an array val.
SetVisible(val) ==
    /\ visible' = val
    /\ fieldVisible' = [x \in Fields |-> val = {} \/ x \in val]
    /\ sets' = changeFieldVisibility(fieldVisible')
    /\ aliased' = FALSE
    /\ runs' = [r \in DOMAIN runs |->
                    IF runs[r].target = "sets" THEN [runs[r] EXCEPT !.target = "orphan"]
                    ELSE runs[r]]
    /\ buffer' = {IF b.target = "sets"
                   THEN [set |-> b.set, target |-> "orphan",
                         object |-> sets[CHOOSE i \in 1..Len(sets) : sets[i].id = b.set]]
                   ELSE b : b \in buffer}
    /\ readyEvent' = "none"
    /\ UNCHANGED <<outerVars, cacheVars, hostVars, ctorVars, dataVars, mapped, fieldValidation, pending,
                   validating, changePending, instance, directive, onCreate,
                   readyTimer, lastReadyState, closed>>

(***************************************************************************)
(* The field descriptors, the field context and BaseFormField.             *)
(***************************************************************************)
\* field.isRequired of the descriptor of a field.
isRequired(pointer) == pointer \in {"/name", "/tags"}

\* meta.type of the descriptor of a field.
metaType(pointer) ==
    CASE pointer = "/parentId" -> "integer"
      [] pointer \in {"/code", "/tags"} -> "array"
      [] OTHER -> "string"

\* meta.default of the descriptor of a field.
metaDefault(pointer) ==
    CASE pointer = "/title" -> "untitled"
      [] pointer = "/note" -> "n/a"
      [] OTHER -> undefined

\* The pointers the initial values are given by: the fields and the address
\* object that holds the street.
InitialPointers ==
    {"/name", "/parentId", "/title", "/code", "/tags", "/note", "/address", "/address/street",
     "/id", "/address/id"}

\* The pointer without its last segment.
parentPointer(pointer) ==
    IF pointer \in {"/address/street", "/address/id"} THEN "/address" ELSE "/"

isCreateMode == mode \in {"create", "copy"}

isEditMode == mode \in {"edit", "copy", "create"}

isViewMode == mode = "view"

\* _.isEmpty(this.initialValues)
isEmptyInitialValues == \A p \in DOMAIN initialValues : initialValues[p] = undefined

\* pointerHas(this.initialValues, pointer)
pointerHas(pointer) == pointer \in DOMAIN initialValues /\ initialValues[pointer] # undefined

\* !!val
truthy(val) == val \notin {undefined, "null", "", "0"}

\* The fields of the fieldsets, one fieldset after the other.
RECURSIVE flattenFields(_)
flattenFields(fieldsets) ==
    IF fieldsets = <<>> THEN <<>>
    ELSE fieldsets[1].fields \o flattenFields(Tail(fieldsets))

\* field.name: the last segment of the pointer.
fieldName(field) == segments(field)[Len(segments(field))]

\* parent.schema.identityProperties
identityProperties == {"id"}

\* isFieldParentIdentifier(field)
isFieldParentIdentifier(field) ==
    /\ parent # <<>>
    /\ isCreateMode
    /\ fieldName(field) \in identityProperties
    /\ fieldName(field) \notin {"name", "internalname"}

\* getFieldValueByName(fieldName) of the context that was left as `context`.
getFieldValueByName(context, name) ==
    LET fields == flattenFields(context.sets)
        named == {k \in 1..Len(fields) : fieldName(fields[k]) = name}
        first == CHOOSE k \in named : \A l \in named : k <= l
    IN  IF named # {} /\ context.instance[fields[first]] = "object"
        THEN context.value[fields[first]]
        ELSE IF \A q \in DOMAIN context.initialValues : context.initialValues[q] = undefined
        THEN undefined
        ELSE IF ("/" \o name) \in DOMAIN context.initialValues
        THEN context.initialValues["/" \o name]
        ELSE undefined

\* getFieldDefaultValue(field): the value of the parent for a field that is
\* an identifier of the parent, else the default of the descriptor.
getFieldDefaultValue(field) ==
    IF isFieldParentIdentifier(field)
    THEN getFieldValueByName(parent[Len(parent)], fieldName(field))
    ELSE metaDefault(field)

\* pointerGet throws for a pointer that is absent; in create mode a field
\* under an absent object then gets its default.
getFieldInitialValue(field) ==
    IF isEmptyInitialValues THEN undefined
    ELSE IF pointerHas(field) THEN initialValues[field]
    ELSE IF isCreateMode /\ Len(segments(field)) > 1 /\ ~pointerHas(parentPointer(field))
         THEN getFieldDefaultValue(field)
         ELSE undefined

\* ctx.initialValue that is the default of the field in every mode.
ctxInitialValueDefault(field) == getFieldDefaultValue(field)

\* ctx.initialValue and ctx.value as _mapFieldFromSchema sets them.
ctxInitialValue(field) ==
    IF isCreateMode \/ isEmptyInitialValues THEN getFieldDefaultValue(field)
    ELSE getFieldInitialValue(field)

ctxValue(field) == getFieldInitialValue(field)

\* BaseFormField.emptyValue()
emptyValue(field) ==
    IF metaDefault(field) # undefined THEN metaDefault(field)
    ELSE CASE metaType(field) \in {"integer", "number"} -> "0"
           [] metaType(field) = "string" -> ""
           [] metaType(field) = "boolean" -> "false"
           [] metaType(field) = "array" -> "[]"
           [] OTHER -> undefined

\* val == null
isNullish(val) == val \in {"null", undefined}

\* set value(val) leaves the field alone when nothing changes.
valueUnchanged(old, val) == val = old \/ (isNullish(val) /\ isNullish(old))

\* The value after set value(val).
valueSet(old, val) == IF valueUnchanged(old, val) THEN old ELSE val

\* initializeFieldValue that never marks the new field as dirty.
initializeFieldValuePristine(field) ==
    LET ci == ctxInitialValue(field)
        cv == ctxValue(field)
    IN  [initialValue |-> ci,
         value |-> IF cv # undefined THEN valueSet("null", cv)
                   ELSE IF ci # undefined THEN valueSet("null", ci)
                   ELSE valueSet("null", emptyValue(field)),
         dirty |-> FALSE]

\* initializeFieldValue: the state of a new BaseFormField for the field.
initializeFieldValue(field) ==
    LET ci == ctxInitialValue(field)
        cv == ctxValue(field)
    IN  [initialValue |-> ci,
         value |-> IF cv # undefined THEN valueSet("null", cv)
                   ELSE IF ci # undefined THEN valueSet("null", ci)
                   ELSE valueSet("null", emptyValue(field)),
         dirty |-> IF cv # undefined THEN ci # cv ELSE FALSE]

\* A field without a component has no field state.
NoFieldState == [initialValue |-> undefined, value |-> undefined, dirty |-> FALSE]

\* The field state after the component of `field` became `state`.
withFieldState(field, state) ==
    /\ value' = [value EXCEPT ![field] = state.value]
    /\ initialValue' = [initialValue EXCEPT ![field] = state.initialValue]
    /\ dirty' = [dirty EXCEPT ![field] = state.dirty]

\* BaseFormField.reset() of one field.
resetField(field) ==
    IF initialValue[field] # undefined
    THEN [initialValue |-> initialValue[field],
          value |-> valueSet(value[field], initialValue[field]),
          dirty |-> FALSE]
    ELSE [initialValue |-> emptyValue(field),
          value |-> valueSet(value[field], emptyValue(field)),
          dirty |-> FALSE]

\* each(): visibleOnly picks mapped, its opposite picks sets.
eachFields(visibleOnly) ==
    LET over == IF visibleOnly THEN mapped ELSE sets
    IN  UNION {{over[i].fields[j] : j \in 1..Len(over[i].fields)} : i \in 1..Len(over)}

\* set value(val) of the component of the field, as far as the form goes.
SetFieldValue(field, val) ==
    /\ instance[field] = "object"
    /\ value' = [value EXCEPT ![field] = valueSet(@, val)]
    /\ dirty' = [dirty EXCEPT ![field] = @ \/ ~valueUnchanged(value[field], val)]
    /\ changePending' = IF ~valueUnchanged(value[field], val) /\ directive[field] = "created"
                        THEN changePending \cup {field} ELSE changePending
    /\ readyEvent' = "none"
    /\ UNCHANGED <<hostVars, ctorVars, initialValue, visible, fieldVisible, sets, instance,
                   directive, onCreate, readyTimer, lastReadyState, closed, mapped,
                   fieldValidation, aliased, pending, runs, validating, buffer>>

\* The user gives the field a value; nothing listens to the field but the form.
SetValue(field, val) ==
    /\ SetFieldValue(field, val)
    /\ UNCHANGED <<outerVars, cacheVars>>

\* FieldContextProvider.reset(): every field that has an instance is reset.
Reset ==
    LET state == [x \in Fields |->
                    IF x \in eachFields(TRUE) /\ instance[x] = "object" THEN resetField(x)
                    ELSE [initialValue |-> initialValue[x], value |-> value[x],
                          dirty |-> dirty[x]]]
    IN  /\ value' = [x \in Fields |-> state[x].value]
        /\ initialValue' = [x \in Fields |-> state[x].initialValue]
        /\ dirty' = [x \in Fields |-> state[x].dirty]
        /\ changePending' = changePending \cup
                {x \in Fields : state[x].value # value[x] /\ directive[x] = "created"}
        /\ readyEvent' = "none"
        /\ UNCHANGED <<outerVars, cacheVars, hostVars, ctorVars, visible, fieldVisible, sets, instance,
                       directive, onCreate, readyTimer, lastReadyState, closed, mapped,
                       fieldValidation, aliased, pending, runs, validating, buffer>>

\* FieldContextProvider.destroy(): the instances are dropped, the
\* subscriptions closed and the subjects completed.
Destroy ==
    /\ instance' = [x \in Fields |-> IF x \in eachFields(TRUE) THEN "undefined"
                                     ELSE instance[x]]
    /\ value' = [x \in Fields |-> IF x \in eachFields(TRUE) THEN undefined ELSE value[x]]
    /\ initialValue' = [x \in Fields |-> IF x \in eachFields(TRUE) THEN undefined
                                         ELSE initialValue[x]]
    /\ dirty' = [x \in Fields |-> IF x \in eachFields(TRUE) THEN FALSE ELSE dirty[x]]
    /\ closed' = TRUE
    /\ readyTimer' = FALSE
    /\ changePending' = {}
    /\ buffer' = {}
    /\ readyEvent' = "none"
    /\ UNCHANGED <<outerVars, cacheVars, hostVars, ctorVars, visible, fieldVisible, sets, directive, onCreate,
                   lastReadyState, mapped, fieldValidation, aliased, pending, runs,
                   validating>>

(***************************************************************************)
(* FieldComponentSwitchDirective, one per rendered field, bound to the     *)
(* context through fieldSwitchContextProvider.                             *)
(***************************************************************************)
\* error(message): null goes out on onCreate and the error view is shown. The
\* view-model is not written; a host that stores the value of onCreate as the
\* instance of the field stores null.
error(field, reason) ==
    /\ directive' = [directive EXCEPT ![field] = reason]
    /\ onCreate' = [onCreate EXCEPT ![field] = "null"]
    /\ instance' = IF onCreateBound THEN [instance EXCEPT ![field] = "null"] ELSE instance
    /\ IF onCreateBound THEN withFieldState(field, NoFieldState) ELSE UNCHANGED dataVars
    /\ UNCHANGED readyTimer

\* subscribeForFieldContext and the rest of applyFieldContextChange once the
\* component is created.
subscribeForFieldContext(field) ==
    IF findByPointer(field) = "null"
    THEN error(field, "created")
    ELSE /\ directive' = [directive EXCEPT ![field] = "created"]
         /\ instance' = [instance EXCEPT ![field] = "object"]
         /\ withFieldState(field, initializeFieldValue(field))
         /\ readyTimer' = (readyTimer \/ ~closed)
         /\ onCreate' = [onCreate EXCEPT ![field] = "object"]

\* ngOnInit of the directive of a rendered field: applyFieldContextChange.
\* `fails` is the step that fails when the type of the field has no usable
\* component.
NgOnInit(field, fails) ==
    /\ directive[field] = "none"
    /\ fieldVisible[field]
    /\ IF getFieldComponentByName(fieldType(field))
       THEN subscribeForFieldContext(field)
       ELSE error(field, fails)
    /\ readyEvent' = "none"
    /\ UNCHANGED <<outerVars, cacheVars, hostVars, ctorVars, validationVars, visible, fieldVisible, sets,
                   lastReadyState, closed>>

\* ngOnDestroy that also takes the instance off the view-model.
NgOnDestroyClearsInstance(field) ==
    /\ directive[field] # "none"
    /\ directive' = [directive EXCEPT ![field] = "none"]
    /\ onCreate' = [onCreate EXCEPT ![field] = "none"]
    /\ instance' = [instance EXCEPT ![field] = "undefined"]
    /\ withFieldState(field, NoFieldState)
    /\ readyEvent' = "none"
    /\ changePending' = changePending \ {field}
    /\ UNCHANGED <<outerVars, cacheVars, hostVars, ctorVars, visible, fieldVisible, sets, readyTimer,
                   lastReadyState, closed, mapped, fieldValidation, aliased, pending,
                   runs, validating, buffer>>

\* ngOnDestroy: the component is destroyed, the view-model keeps its instance.
NgOnDestroy(field) ==
    /\ directive[field] # "none"
    /\ directive' = [directive EXCEPT ![field] = "none"]
    /\ onCreate' = [onCreate EXCEPT ![field] = "none"]
    /\ readyEvent' = "none"
    /\ changePending' = changePending \ {field}
    /\ UNCHANGED <<outerVars, cacheVars, hostVars, ctorVars, dataVars, visible, fieldVisible, sets, instance,
                   readyTimer, lastReadyState, closed, mapped, fieldValidation, aliased,
                   pending, runs, validating, buffer>>

(***************************************************************************)
(* Validation: validateField, validateFieldset and validate.               *)
(***************************************************************************)
MaxRuns == 3
MaxPending == 2
MaxChangeRuns == 2

RunIds == 1..MaxRuns

\* A slot of runs that holds no validateFieldset call.
FreeRun == [set |-> "none", fields |-> <<>>, owner |-> "none", target |-> "none",
            order |-> 0, waiting |-> 0, valid |-> TRUE, phase |-> "free"]

\* The validation state of a new context.
NoValidation ==
    /\ fieldValidation = [x \in Fields |-> Pristine]
    /\ aliased = TRUE
    /\ pending = <<>>
    /\ runs = [r \in RunIds |-> FreeRun]
    /\ validating = FALSE
    /\ changePending = {}
    /\ buffer = {}

\* Array.isArray(val) for the values of the model.
isArray(val) == val \in {"[]", "[x]"}

\* Whether validation takes the value of the field for empty.
_validationResultIsEmpty(field) ==
    IF instance[field] # "object" THEN isNullish(ctxInitialValue(field))
    ELSE IF isNullish(value[field]) THEN TRUE
    ELSE CASE metaType(field) = "string" -> value[field] = ""
           [] metaType(field) \in {"integer", "number"} -> isNullish(value[field])
           [] metaType(field) = "array" -> ~isArray(value[field])
           [] OTHER -> FALSE

\* The answer null of _validateRequiredField.
NoResult == [valid |-> TRUE, level |-> "none", message |-> "null"]

requiredMessage == "Dit veld heeft een waarde nodig."

\* The result the required state of the field decides, or NoResult.
_validateRequiredField(field) ==
    IF _validationResultIsEmpty(field)
    THEN IF isRequired(field) THEN Failure(requiredMessage) ELSE Pristine
    ELSE NoResult

\* The field components that define validate().
hasValidate(field) == field = "/address/street"

\* What the validate() of the field component answers for a value.
customResult(field, val) ==
    IF val = "bad" THEN Failure("custom")
    ELSE [valid |-> TRUE, level |-> "warning", message |-> "custom"]

\* What validatePointer(pointer, value) of the schema validator leads to.
schemaResult(field, val) == IF val = "bad" THEN Failure("format") ELSE Success

\* The marker of a result that a promise delivers later.
Later == [valid |-> TRUE, level |-> "later", message |-> "null"]

\* validateField as far as it runs synchronously: the result it stores at
\* once, or Later.
validateFieldNow(field) ==
    IF instance[field] # "object" THEN Pristine
    ELSE IF _validateRequiredField(field) # NoResult THEN _validateRequiredField(field)
    ELSE Later

\* The result the pending validation of the field delivers: the one of the
\* field's validate() when it has one, else the schema validator's.
validateFieldLater(field) ==
    IF hasValidate(field) THEN customResult(field, value[field])
    ELSE schemaResult(field, value[field])

\* The fieldset object with the given id in an array of fieldsets.
fieldsetById(array, id) == array[CHOOSE i \in 1..Len(array) : array[i].id = id]

\* Where the fieldset objects of sets live: in mapped until the first change
\* of the visibility, in an array of copies afterwards.
currentTarget == IF aliased THEN "mapped" ELSE "sets"

\* A reference to a fieldset object: a live one is looked up where it lives,
\* one that sets no longer holds is carried along as it was.
NoObject == [id |-> "none", pointer |-> "/", validation |-> Pristine, fields |-> <<>>]

currentRef(id) == [set |-> id, target |-> currentTarget, object |-> NoObject]

deref(ref) ==
    CASE ref.target = "mapped" -> fieldsetById(mapped, ref.set)
      [] ref.target = "sets" -> fieldsetById(sets, ref.set)
      [] OTHER -> ref.object

\* set.validation = result, for the fieldset object a reference points to.
assignValidation(array, id, result) ==
    [i \in 1..Len(array) |->
        IF array[i].id = id THEN [array[i] EXCEPT !.validation = result] ELSE array[i]]

writeValidation(target, id, result) ==
    /\ mapped' = IF target = "mapped" THEN assignValidation(mapped, id, result) ELSE mapped
    /\ sets' = IF target = "sets" \/ (target = "mapped" /\ aliased)
               THEN assignValidation(sets, id, result) ELSE sets

RECURSIVE flatten(_)
flatten(arrays) ==
    IF Len(arrays) = 0 THEN <<>> ELSE arrays[1] \o flatten(SubSeq(arrays, 2, Len(arrays)))

\* The fields validateFieldset hands to validateField: all that are ready when
\* the fields are to be validated or the fieldset was invalid, else none.
fieldsToValidate(set, validateFields) ==
    IF validateFields \/ ~set.validation.valid
    THEN SelectSeq(set.fields, LAMBDA x : isFieldReady(x))
    ELSE <<>>

freeRuns == {r \in RunIds : runs[r].phase = "free"}

\* The k-th free slot of runs.
freeRun(k) == CHOOSE r \in freeRuns : Cardinality({q \in freeRuns : q < r}) = k - 1

\* validateFieldset(set, validateFields) up to its promises, for the fieldsets
\* the references point to, in their order: the results that are known at
\* once are stored, the others are pending, and a run waits for them.
validateFieldsets(refs, validateFields, owner) ==
    LET todo == [k \in 1..Len(refs) |-> fieldsToValidate(deref(refs[k]), validateFields)]
        now == {x \in Fields : \E k \in 1..Len(refs) : \E i \in 1..Len(todo[k]) :
                    todo[k][i] = x /\ validateFieldNow(x) # Later}
        later == [k \in 1..Len(refs) |->
                    SelectSeq(todo[k], LAMBDA x : validateFieldNow(x) = Later)]
        entries == [k \in 1..Len(refs) |->
                    [i \in 1..Len(later[k]) |->
                        [field |-> later[k][i], result |-> validateFieldLater(later[k][i]),
                         run |-> freeRun(k)]]]
    IN  /\ Len(refs) <= Cardinality(freeRuns)
        /\ Len(pending) + Len(flatten(later)) <= MaxPending
        /\ fieldValidation' = [x \in Fields |->
                IF x \in now THEN validateFieldNow(x) ELSE fieldValidation[x]]
        /\ pending' = pending \o flatten(entries)
        /\ runs' = [r \in RunIds |->
                IF \E k \in 1..Len(refs) : freeRun(k) = r
                THEN LET k == CHOOSE k \in 1..Len(refs) : freeRun(k) = r
                     IN  [set |-> refs[k].set, fields |-> deref(refs[k]).fields,
                          owner |-> owner, target |-> refs[k].target, order |-> k,
                          waiting |-> Len(later[k]),
                          valid |-> \A i \in 1..Len(todo[k]) :
                                        validateFieldNow(todo[k][i]).valid,
                          phase |-> "fields"]
                ELSE runs[r]]

\* validate() that hands the fieldsets to validateFieldset in the order of sets.
validateUnsorted ==
    /\ ~validating
    /\ validating' = TRUE
    /\ validateFieldsets([k \in 1..Len(sets) |-> currentRef(sets[k].id)], TRUE, "validate")

\* validate() up to its promises: the fieldsets of sets, those with pointer
\* '/' sorted to the end, are handed to validateFieldset one after the other.
validate ==
    LET sorted == SelectSeq(sets, LAMBDA x : x.pointer # "/") \o
                  SelectSeq(sets, LAMBDA x : x.pointer = "/")
    IN  /\ ~validating
        /\ validating' = TRUE
        /\ validateFieldsets([k \in 1..Len(sorted) |-> currentRef(sorted[k].id)],
                             TRUE, "validate")

\* No validate() call is made.
validateSkipped == UNCHANGED <<fieldValidation, pending, runs, validating>>

\* What the validation of the form leaves alone.
mountVars == <<visible, fieldVisible, instance, directive, onCreate, readyTimer,
               lastReadyState, closed>>

\* The host calls validate().
Validate ==
    /\ validate
    /\ readyEvent' = "none"
    /\ UNCHANGED <<outerVars, cacheVars, hostVars, ctorVars, dataVars, mountVars, sets, mapped, aliased,
                   changePending, buffer>>

\* text.startsWith(prefix) for two pointers.
startsWith(text, prefix) ==
    /\ Len(segments(prefix)) <= Len(segments(text))
    /\ SubSeq(segments(text), 1, Len(segments(prefix))) = segments(prefix)

\* The debounced change of a field reaches fieldChanged$: the field is
\* validated and its fieldset is put in the buffer of fieldsetChanged$.
FieldChanged(field) ==
    /\ field \in changePending
    /\ changePending' = changePending \ {field}
    /\ IF closed
       THEN UNCHANGED <<fieldValidation, pending, buffer>>
       ELSE /\ IF validateFieldNow(field) # Later
               THEN /\ fieldValidation' = [fieldValidation EXCEPT ![field] = validateFieldNow(field)]
                    /\ UNCHANGED pending
               ELSE /\ Len(pending) < MaxPending
                    /\ pending' = Append(pending, [field |-> field,
                                    result |-> validateFieldLater(field), run |-> 0])
                    /\ UNCHANGED fieldValidation
            /\ buffer' = buffer \cup
                    {currentRef(sets[i].id) : i \in {j \in 1..Len(sets) :
                        \E m \in 1..Len(sets[j].fields) : sets[j].fields[m] = field}}
    /\ readyEvent' = "none"
    /\ UNCHANGED <<outerVars, cacheVars, hostVars, ctorVars, dataVars, mountVars, sets, mapped, aliased, runs,
                   validating>>

\* augmentRedirectedFieldsetsWithParents: the fieldsets of sets whose pointer
\* starts the pointer of a changed fieldset are added.
augmentRedirectedFieldsetsWithParents(refs) ==
    IF Len(sets) > 1 /\ Len(sets) # Cardinality(refs)
    THEN refs \cup {currentRef(sets[i].id) : i \in {j \in 1..Len(sets) :
                        \E b \in refs : startsWith(deref(b).pointer, sets[j].pointer)}}
    ELSE refs

\* A set of references as an array.
RECURSIVE asArray(_)
asArray(refs) ==
    IF refs = {} THEN <<>>
    ELSE LET b == CHOOSE b \in refs : TRUE IN <<b>> \o asArray(refs \ {b})

\* The buffer window of fieldsetChanged$ ends: every buffered fieldset and its
\* parents are validated without revalidating their fields.
BufferTime ==
    /\ buffer # {}
    /\ Cardinality({r \in RunIds : runs[r].owner = "change"})
            + Cardinality(augmentRedirectedFieldsetsWithParents(buffer)) <= MaxChangeRuns
    /\ buffer' = {}
    /\ validateFieldsets(asArray(augmentRedirectedFieldsetsWithParents(buffer)),
                         FALSE, "change")
    /\ readyEvent' = "none"
    /\ UNCHANGED <<outerVars, cacheVars, hostVars, ctorVars, dataVars, mountVars, sets, mapped, aliased,
                   validating, changePending>>

\* A pending field validation settles: the result is stored on the field and
\* handed to the validateFieldset call that waits for it.
SettleFieldValidation(i) ==
    /\ i \in 1..Len(pending)
    /\ fieldValidation' = [fieldValidation EXCEPT ![pending[i].field] = pending[i].result]
    /\ pending' = RemoveAt(pending, i)
    /\ runs' = [r \in RunIds |->
            IF r = pending[i].run
            THEN [runs[r] EXCEPT !.waiting = @ - 1,
                                 !.valid = @ /\ pending[i].result.valid]
            ELSE runs[r]]
    /\ readyEvent' = "none"
    /\ UNCHANGED <<outerVars, cacheVars, hostVars, ctorVars, dataVars, mountVars, sets, mapped, aliased,
                   validating, changePending, buffer>>

\* What the schema validator can answer for the data of a fieldset.
SchemaOutcomes == {"ok", "dependencies"}

\* All field results of a validateFieldset call are in: when all are valid
\* the schema validator checks the data of the fieldset and the answer is
\* stored on the fieldset.
CheckFieldset(r, outcome) ==
    /\ runs[r].phase = "fields"
    /\ runs[r].waiting = 0
    /\ IF runs[r].valid
       THEN writeValidation(runs[r].target, runs[r].set,
                IF outcome = "ok" THEN Success ELSE Failure(outcome))
       ELSE outcome = "ok" /\ UNCHANGED <<mapped, sets>>
    /\ runs' = [runs EXCEPT ![r] = IF runs[r].owner = "validate"
                                   THEN [@ EXCEPT !.phase = "done"] ELSE FreeRun]
    /\ readyEvent' = "none"
    /\ UNCHANGED <<outerVars, cacheVars, hostVars, ctorVars, dataVars, mountVars, fieldValidation, aliased,
                   pending, validating, changePending, buffer>>

\* The index in sets of the first nested fieldset that is invalid with the
\* message of sets[0], or 0.
duplicateOfFirst ==
    LET dup == {i \in 1..Len(sets) : /\ sets[i].pointer # "/"
                                     /\ ~sets[i].validation.valid
                                     /\ sets[i].validation.message = sets[1].validation.message}
    IN  IF dup = {} THEN 0 ELSE CHOOSE i \in dup : \A j \in dup : i <= j

\* All fieldsets of a validate() call are done: a duplicate error is taken
\* off sets[0] and the call resolves.
ValidateResolved ==
    /\ validating
    /\ \A r \in RunIds : runs[r].owner = "validate" => runs[r].phase = "done"
    /\ validating' = FALSE
    /\ runs' = [r \in RunIds |-> IF runs[r].owner = "validate" THEN FreeRun ELSE runs[r]]
    /\ IF duplicateOfFirst # 0
       THEN writeValidation(currentTarget, sets[1].id, Success)
       ELSE UNCHANGED <<mapped, sets>>
    /\ readyEvent' = "none"
    /\ UNCHANGED <<outerVars, cacheVars, hostVars, ctorVars, dataVars, mountVars, fieldValidation, aliased,
                   pending, changePending, buffer>>

(***************************************************************************)
(* The data of the form: getData and getPatchOperations.                   *)
(***************************************************************************)
\* pointerHas(object, pointer)
has(object, pointer) == pointer \in DOMAIN object /\ object[pointer] # undefined

\* pointerSet(object, pointer, val): objects on the way are created.
pointerSet(object, pointer, val) ==
    [q \in DOMAIN object |->
        IF q = pointer THEN val
        ELSE IF q = parentPointer(pointer) /\ object[q] = undefined THEN "object"
        ELSE object[q]]

\* pointerRemove(object, pointer)
pointerRemove(object, pointer) ==
    [q \in DOMAIN object |-> IF q = pointer THEN undefined ELSE object[q]]

\* Whether the value of the field is one that is left out of the data.
isUndefinedValue(field) ==
    IF isRequired(field) THEN FALSE
    ELSE CASE metaType(field) = "integer" -> isNullish(value[field])
           [] metaType(field) = "string" -> value[field] = ""
           [] metaType(field) = "array" -> isNullish(value[field]) \/ value[field] = "[]"
           [] OTHER -> FALSE

\* getData, the loop over the fields of a fieldset.
RECURSIVE getDataFields(_, _)
getDataFields(result, fields) ==
    IF Len(fields) = 0 THEN result
    ELSE LET field == Head(fields)
             next == IF instance[field] # "object" THEN result
                     ELSE IF ~isUndefinedValue(field)
                          THEN pointerSet(result, field, value[field])
                     ELSE IF has(result, field) THEN pointerRemove(result, field)
                     ELSE result
         IN  getDataFields(next, Tail(fields))

\* getData, the loop over the fieldsets of sets.
RECURSIVE getDataSets(_, _, _)
getDataSets(result, fieldsets, fieldsetId) ==
    IF Len(fieldsets) = 0 THEN result
    ELSE LET fieldset == Head(fieldsets)
             withObject == IF fieldset.pointer # "/" /\ ~has(result, fieldset.pointer)
                           THEN pointerSet(result, fieldset.pointer, "object")
                           ELSE result
         IN  IF fieldsetId # "null" /\ fieldset.id # fieldsetId
             THEN getDataSets(result, Tail(fieldsets), fieldsetId)
             ELSE getDataSets(getDataFields(withObject, fieldset.fields),
                              Tail(fieldsets), fieldsetId)

\* getData that starts from an empty object instead of the initial values.
getDataFromEmpty(fieldsetId) ==
    getDataSets([q \in DOMAIN initialValues |-> undefined], sets, fieldsetId)

\* getData(fieldsetId): the initial values with the values of the fields.
getData(fieldsetId) == getDataSets(initialValues, sets, fieldsetId)

\* fieldPatchOperations that leaves out the test of the old value.
fieldPatchOperationsUntested(field, includeTests) ==
    LET iv == IF has(initialValues, field) THEN initialValues[field] ELSE undefined
        initEmpty == initialValue[field] = undefined \/ iv = undefined
        changeEmpty == value[field] = undefined
    IN  IF ~(instance[field] = "object" /\ dirty[field]) THEN <<>>
        ELSE IF initEmpty /\ ~changeEmpty
             THEN << [op |-> "add", path |-> field, value |-> value[field]] >>
        ELSE IF ~initEmpty /\ changeEmpty
             THEN << [op |-> "remove", path |-> field, value |-> undefined] >>
        ELSE << [op |-> "replace", path |-> field, value |-> value[field]] >>

\* The operations getPatchOperations works out for a field.
fieldPatchOperations(field, includeTests) ==
    LET iv == IF has(initialValues, field) THEN initialValues[field] ELSE undefined
        initEmpty == initialValue[field] = undefined \/ iv = undefined
        changeEmpty == value[field] = undefined
        test == IF includeTests
                THEN << [op |-> "test", path |-> field, value |-> initialValue[field]] >>
                ELSE <<>>
    IN  IF ~(instance[field] = "object" /\ dirty[field]) THEN <<>>
        ELSE IF initEmpty /\ ~changeEmpty
             THEN << [op |-> "add", path |-> field, value |-> value[field]] >>
        ELSE IF ~initEmpty /\ changeEmpty
             THEN test \o << [op |-> "remove", path |-> field, value |-> undefined] >>
        ELSE test \o << [op |-> "replace", path |-> field, value |-> value[field]] >>

\* The fields in the order each() visits them.
eachSequence(visibleOnly) ==
    LET over == IF visibleOnly THEN mapped ELSE sets
    IN  flatten([i \in 1..Len(over) |-> over[i].fields])

\* getPatchOperations(includeTests)
getPatchOperations(includeTests) ==
    LET fields == eachSequence(TRUE)
    IN  flatten([k \in 1..Len(fields) |-> fieldPatchOperations(fields[k], includeTests)])

\* What asking for the data leaves alone.
formState == <<outerVars, cacheVars, ctorVars, dataVars, validationVars, visible, fieldVisible, sets,
               instance, directive, onCreate, readyTimer, lastReadyState, closed>>

\* The host calls getData().
GetData ==
    /\ answer' = [call |-> "getData", includeTests |-> FALSE, data |-> getData("null"),
                  ops |-> <<>>, dirty |-> FALSE, error |-> FALSE]
    /\ readyEvent' = "none"
    /\ UNCHANGED formState

\* The host calls getPatchOperations(includeTests).
GetPatchOperations(includeTests) ==
    /\ answer' = [call |-> "getPatchOperations", includeTests |-> includeTests,
                  data |-> <<>>, ops |-> getPatchOperations(includeTests), dirty |-> FALSE,
                  error |-> FALSE]
    /\ readyEvent' = "none"
    /\ UNCHANGED formState

\* isDirty(): some field of the visible fieldsets is ready and its
\* component is dirty.
isDirty ==
    \E i \in 1..Len(sets) : \E j \in 1..Len(sets[i].fields) :
        isFieldReady(sets[i].fields[j]) /\ dirty[sets[i].fields[j]]

\* The host calls isDirty().
IsDirty ==
    /\ answer' = [call |-> "isDirty", includeTests |-> FALSE, data |-> <<>>, ops |-> <<>>,
                  dirty |-> isDirty, error |-> FALSE]
    /\ readyEvent' = "none"
    /\ UNCHANGED formState

\* The test that would have ready$ emit true whenever the form is ready.
isReadyEveryTime == isReady

\* if (isReady && !lastReadyState)
isReadyAndWasNot == isReady /\ ~lastReadyState

\* The fieldReady$ subscription of the constructor, run once fieldReady$ has
\* been quiet for the debounce time.
FieldReadyDebounced ==
    /\ readyTimer
    /\ readyTimer' = FALSE
    /\ IF isReadyAndWasNot
       THEN /\ lastReadyState' = TRUE
            /\ readyEvent' = "true"
            /\ IF validateOnceReady THEN validate ELSE validateSkipped
       ELSE IF ~isReady /\ lastReadyState
       THEN /\ lastReadyState' = FALSE
            /\ readyEvent' = "false"
            /\ validateSkipped
       ELSE /\ readyEvent' = "none"
            /\ validateSkipped
            /\ UNCHANGED lastReadyState
    /\ UNCHANGED <<outerVars, cacheVars, hostVars, ctorVars, dataVars, visible, fieldVisible, sets, instance,
                   directive, onCreate, closed, mapped, aliased, changePending, buffer>>

\* The initial values of an address form: an entity with a name and a street.
addressValues ==
    [p \in InitialPointers |->
        CASE p = "/name" -> "Acme"
          [] p = "/address" -> "object"
          [] p = "/address/street" -> "Main St"
          [] OTHER -> undefined]

\* The values the user types in the form.
FormEdits == {"", "Bolt"}

\* The context as constructed: every field visible, no instance yet.
InitForm ==
    /\ NoMapper
    /\ rev = "removeBy"
    /\ cache = <<>>
    /\ promises = <<>>
    /\ last = NoCall
    /\ mapped = _mapSchemaToFieldsets(addressForm)
    /\ mode = "edit"
    /\ initialValues = addressValues
    /\ validateOnceReady = FALSE
    /\ closed = FALSE
    /\ value = [x \in Fields |-> undefined]
    /\ initialValue = [x \in Fields |-> undefined]
    /\ dirty = [x \in Fields |-> FALSE]
    /\ visible = Fields
    /\ fieldVisible = [x \in Fields |-> TRUE]
    /\ sets = mapped
    /\ instance = [x \in Fields |-> "undefined"]
    /\ directive = [x \in Fields |-> "none"]
    /\ onCreate = [x \in Fields |-> "none"]
    /\ onCreateBound \in BOOLEAN
    /\ registeredFieldTypes = {"text"}
    /\ readyTimer = FALSE
    /\ lastReadyState = FALSE
    /\ readyEvent = "none"
    /\ answer = NoAnswer
    /\ NoValidation

NextForm ==
    \/ \E val \in SUBSET Fields : SetVisible(val)
    \/ \E field \in Fields, fails \in DirectiveErrors : NgOnInit(field, fails)
    \/ \E field \in Fields : NgOnDestroy(field)
    \/ FieldReadyDebounced
    \/ \E field \in Fields, val \in FormEdits : SetValue(field, val)
    \/ Reset
    \/ Destroy

SpecForm == InitForm /\ [][NextForm]_vars

\* The values the user types while the form validates.
ValidationEdits == {"", "bad"}

\* The fields that get a component.
Mountable == {x \in Fields : getFieldComponentByName(fieldType(x))}

\* A context as constructed for the schema, with the initial values, in an
\* application that registered components for the field types.
InitContextWith(fieldsets, values, types) ==
    /\ registeredFieldTypes = types
    /\ NoMapper
    /\ rev = "removeBy"
    /\ cache = <<>>
    /\ promises = <<>>
    /\ last = NoCall
    /\ mapped = _mapSchemaToFieldsets(fieldsets)
    /\ initialValues = values
    /\ closed = FALSE
    /\ value = [x \in Fields |-> undefined]
    /\ initialValue = [x \in Fields |-> undefined]
    /\ dirty = [x \in Fields |-> FALSE]
    /\ visible = Fields
    /\ fieldVisible = [x \in Fields |-> TRUE]
    /\ sets = mapped
    /\ instance = [x \in Fields |-> "undefined"]
    /\ directive = [x \in Fields |-> "none"]
    /\ onCreate = [x \in Fields |-> "none"]
    /\ readyTimer = FALSE
    /\ lastReadyState = FALSE
    /\ readyEvent = "none"
    /\ answer = NoAnswer
    /\ NoValidation

\* A context in an application that registered the text component only.
InitContext(fieldsets, values) == InitContextWith(fieldsets, values, {"text"})

\* The address form in edit mode.
InitChange ==
    /\ InitContext(addressForm, addressValues)
    /\ mode = "edit"
    /\ validateOnceReady = FALSE
    /\ onCreateBound = FALSE

\* The form while the user fills it in: every change is validated, first the
\* field, then its fieldset.
NextChange ==
    \/ \E field \in Mountable : NgOnInit(field, "noComponent")
    \/ \E field \in Fields, val \in ValidationEdits : SetValue(field, val)
    \/ \E field \in Fields : FieldChanged(field)
    \/ BufferTime
    \/ \E i \in 1..MaxPending : SettleFieldValidation(i)
    \/ \E r \in RunIds, outcome \in SchemaOutcomes : CheckFieldset(r, outcome)

SpecChange == InitChange /\ [][NextChange]_vars

\* The form while the user fills it in and the host changes which fields
\* are visible.
NextWindow ==
    \/ \E field \in Mountable : NgOnInit(field, "noComponent")
    \/ \E field \in Fields : SetValue(field, "bad")
    \/ \E field \in Fields : FieldChanged(field)
    \/ BufferTime
    \/ \E i \in 1..MaxPending : SettleFieldValidation(i)
    \/ \E r \in RunIds : CheckFieldset(r, "ok")
    \/ SetVisible({"/name", "/parentId"})
    \/ SetVisible({})

SpecWindow == InitChange /\ [][NextWindow]_vars

\* The lists the host assigns to visible: pointers of fields and a pointer
\* that is not one of a field. An assignment of something that is no array
\* returns at once and is a step that changes nothing.
VisibleInputs == SUBSET (Fields \cup {"/unknown"})

\* Either schema in edit mode.
InitVisible ==
    /\ \E fieldsets \in {addressForm, twoRootForm} : InitContext(fieldsets, addressValues)
    /\ mode = "edit"
    /\ validateOnceReady = FALSE
    /\ onCreateBound = FALSE

\* The host changes the visibility while fields come and go.
NextVisible ==
    \/ \E val \in VisibleInputs : SetVisible(val)
    \/ \E field \in Mountable : NgOnInit(field, "noComponent")
    \/ \E field \in Fields : NgOnDestroy(field)

SpecVisible == InitVisible /\ [][NextVisible]_vars

\* The host calls extract(f => f.ctx.pointer, visibleOnly).
Extract(visibleOnly) ==
    /\ answer' = [call |-> "extract", includeTests |-> FALSE, data |-> eachSequence(visibleOnly),
                  ops |-> <<>>, dirty |-> FALSE, error |-> FALSE, visibleOnly |-> visibleOnly]
    /\ readyEvent' = "none"
    /\ UNCHANGED formState

\* The host changes the visibility and lists the fields.
NextEach ==
    \/ \E val \in VisibleInputs : SetVisible(val)
    \/ \E field \in Mountable : NgOnInit(field, "noComponent")
    \/ \E visibleOnly \in BOOLEAN : Extract(visibleOnly)

SpecEach == InitVisible /\ [][NextEach]_vars

\* getChangedFieldData, the loop over the fields of a fieldset.
RECURSIVE getChangedFields(_, _)
getChangedFields(result, fields) ==
    IF Len(fields) = 0 THEN result
    ELSE LET field == Head(fields)
             next == IF instance[field] = "object" /\ dirty[field] /\ ~isUndefinedValue(field)
                     THEN pointerSet(result, field, value[field])
                     ELSE result
         IN  getChangedFields(next, Tail(fields))

\* getChangedFieldData(): the values of the dirty fields of sets.
getChangedFieldData ==
    getChangedFields([q \in DOMAIN initialValues |-> undefined],
                     flatten([i \in 1..Len(sets) |-> sets[i].fields]))

\* The host calls getChangedFieldData().
GetChangedFieldData ==
    /\ answer' = [call |-> "getChangedFieldData", includeTests |-> FALSE,
                  data |-> getChangedFieldData, ops |-> <<>>, dirty |-> FALSE,
                  error |-> FALSE]
    /\ readyEvent' = "none"
    /\ UNCHANGED formState

\* The initial values the form is opened with: none, a name only, a name and
\* an address, a name and an address without a street name.
noValues == [p \in InitialPointers |-> undefined]

nameValues == [p \in InitialPointers |-> IF p = "/name" THEN "Acme" ELSE undefined]

\* A name and an address whose street is the empty text.
blankValues ==
    [p \in InitialPointers |->
        CASE p = "/name" -> "Acme"
          [] p = "/address" -> "object"
          [] p = "/address/street" -> ""
          [] OTHER -> undefined]

DataInputs == {noValues, nameValues, addressValues, blankValues}

\* What the user can enter in a field.
DataEdits == {"", "Bolt"}

\* The form with the note in any mode with any of the initial values.
InitData ==
    /\ \E values \in DataInputs : InitContext(noteForm, values)
    /\ mode \in {"view", "edit", "copy", "create"}
    /\ validateOnceReady = FALSE
    /\ onCreateBound = FALSE

\* The fields are mounted and edited and the host asks for the data.
NextData ==
    \/ \E field \in Mountable : NgOnInit(field, "noComponent")
    \/ \E field \in Fields, val \in DataEdits : SetValue(field, val)
    \/ GetData
    \/ \E includeTests \in BOOLEAN : GetPatchOperations(includeTests)

SpecData == InitData /\ [][NextData]_vars

\* The user edits the form, the host hides and shows fields and asks for the
\* changes in either form.
NextHidden ==
    \/ \E field \in Mountable : NgOnInit(field, "noComponent")
    \/ \E field \in Fields, val \in DataEdits : SetValue(field, val)
    \/ \E val \in {{}, {"/name"}, {"/address/street"}} : SetVisible(val)
    \/ GetPatchOperations(TRUE)
    \/ GetChangedFieldData

SpecHidden == InitChange /\ [][NextHidden]_vars

\* The form of an entity: a name and the identifier of its parent entity.
entityForm ==
    << [id |-> "entity_default", fields |-> <<"/name", "/parentId">>] >>

\* A new entity: the name is the empty text and there is no parent.
blankEntity ==
    [p \in InitialPointers |->
        CASE p = "/name" -> ""
          [] p = "/parentId" -> "null"
          [] OTHER -> undefined]

\* An entity with a name and a parent.
childEntity ==
    [p \in InitialPointers |->
        CASE p = "/name" -> "Acme"
          [] p = "/parentId" -> "7"
          [] OTHER -> undefined]

\* What the user can enter in a field of the entity form.
EntityEdits(field) == IF metaType(field) = "integer" THEN {"null", "7"} ELSE {"", "Acme"}

\* The entity form in any mode, in an application that has a component for
\* the text and for the dropdown.
InitDirty ==
    /\ \E values \in {noValues, blankEntity, childEntity} :
            InitContextWith(entityForm, values, {"text", "dropdown"})
    /\ mode \in {"view", "edit", "copy", "create"}
    /\ validateOnceReady = FALSE
    /\ onCreateBound = FALSE

\* The fields are mounted, edited and reset and the host asks whether the
\* form is dirty and for the patch.
NextDirty ==
    \/ \E field \in Mountable : NgOnInit(field, "noComponent")
    \/ \E field \in Fields : \E val \in EntityEdits(field) : SetValue(field, val)
    \/ Reset
    \/ IsDirty
    \/ GetPatchOperations(TRUE)

SpecDirty == InitDirty /\ [][NextDirty]_vars

\* Initial values of the form with the tags.
tagsValues ==
    [p \in InitialPointers |->
        CASE p = "/name" -> "Acme"
          [] p = "/tags" -> "[x]"
          [] OTHER -> undefined]

\* What the user can enter in a field: lists for a list, text otherwise.
FieldEdits(field) == IF metaType(field) = "array" THEN {"[]", "[x]"} ELSE {"", "bad"}

\* The form with the tags in edit mode.
InitField ==
    /\ InitContext(tagsForm, tagsValues)
    /\ mode = "edit"
    /\ validateOnceReady = FALSE
    /\ onCreateBound = FALSE

\* The fields of the form are edited and validated one by one.
NextField ==
    \/ \E field \in Mountable : NgOnInit(field, "noComponent")
    \/ \E field \in Fields : \E val \in FieldEdits(field) : SetValue(field, val)
    \/ \E field \in Fields : FieldChanged(field)
    \/ BufferTime
    \/ \E i \in 1..MaxPending : SettleFieldValidation(i)
    \/ \E r \in RunIds, outcome \in SchemaOutcomes : CheckFieldset(r, outcome)

SpecField == InitField /\ [][NextField]_vars

\* Initial values that do not pass validation: no name and a bad street.
invalidValues ==
    [p \in InitialPointers |->
        CASE p = "/name" -> ""
          [] p = "/address" -> "object"
          [] p = "/address/street" -> "bad"
          [] OTHER -> undefined]

\* Either schema, in edit mode, with either initial values.
InitValidation ==
    /\ \E fieldsets \in {addressForm, twoRootForm}, values \in {addressValues, invalidValues} :
            InitContext(fieldsets, values)
    /\ mode = "edit"
    /\ validateOnceReady = FALSE
    /\ onCreateBound = FALSE

\* The form while the host validates it as a whole.
NextValidation ==
    \/ \E field \in Mountable : NgOnInit(field, "noComponent")
    \/ Validate
    \/ \E i \in 1..MaxPending : SettleFieldValidation(i)
    \/ \E r \in RunIds, outcome \in SchemaOutcomes : CheckFieldset(r, outcome)
    \/ ValidateResolved
    \/ \E val \in {{}, {"/address/street"}} : SetVisible(val)

SpecValidation == InitValidation /\ [][NextValidation]_vars

(***************************************************************************)
(* Child contexts.  The variables of the form hold the context at hand;    *)
(* making a child leaves the context on `parent` and puts the child at     *)
(* hand.                                                                   *)
(***************************************************************************)
\* How deep the contexts nest.
MaxDepth == 1

\* A form with a nested address and a reference to a parent entity.
officeForm ==
    << [id |-> "entity_default", fields |-> <<"/id", "/address", "/parentId">>] >>

\* The fieldsets of the object under /address.
streetForm ==
    << [id |-> "entity_default", fields |-> <<"/address/id", "/address/street">>] >>

\* The pointers schema.getFieldDescriptorForPointer finds a descriptor for.
schemaPointers ==
    {"/id", "/name", "/parentId", "/address", "/address/street", "/address/id"}

\* sub[0].$ref: the field refers to another schema.
hasRef(pointer) == pointer = "/parentId"

\* The fieldsets of the navigator that createChildFromPointer makes.
childFieldsets(pointer) ==
    IF hasRef(pointer) THEN entityForm
    ELSE IF pointer = "/address" THEN streetForm
    ELSE <<>>

\* What is left of the context at hand when a child is made of it.
contextState ==
    [mapped |-> mapped, sets |-> sets, visible |-> visible, fieldVisible |-> fieldVisible,
     mode |-> mode, initialValues |-> initialValues, value |-> value,
     initialValue |-> initialValue, dirty |-> dirty, instance |-> instance,
     fieldValidation |-> fieldValidation]

\* The context at hand after a child was made of it, with all the child
\* took from it shared.
contextStateSharingVisible(applicable) ==
    [contextState EXCEPT !.visible = applicable]

\* The context at hand after a child was made of it: the child is given a
\* filtered copy of the visible list, the context keeps its own.
contextStateLeft(applicable) == contextState

\* isFieldAvailable(field)
isFieldAvailable(field) == instance[field] \in {"null", "object"}

\* isLoading()
isLoading ==
    ~(\A i \in 1..Len(sets) : \A j \in 1..Len(sets[i].fields) :
            isFieldAvailable(sets[i].fields[j]))

\* x.substr(pntr.length) for a pointer x that starts with pntr.
substr(x, pntr) ==
    IF x = pntr THEN ""
    ELSE joinPointer(SubSeq(segments(x), Len(segments(pntr)) + 1, Len(segments(x))))

\* The call answers nothing instead of throwing.
ThrowsNothing(call, pointer) ==
    /\ answer' = [call |-> call, includeTests |-> FALSE, data |-> <<>>, ops |-> <<>>,
                  dirty |-> FALSE, error |-> FALSE, pointer |-> pointer]
    /\ readyEvent' = "none"
    /\ UNCHANGED <<outerVars, formState>>

\* The call throws: nothing changes but what the host sees.
Throws(call, pointer) ==
    /\ answer' = [call |-> call, includeTests |-> FALSE, data |-> <<>>, ops |-> <<>>,
                  dirty |-> FALSE, error |-> TRUE, pointer |-> pointer]
    /\ readyEvent' = "none"
    /\ UNCHANGED <<outerVars, formState>>

\* createChildFromNavigator(schema, pntr) for a navigator with the
\* fieldsets; no field is readonly.
createChildFromNavigator(call, fieldsets, pntr, outlined, prefixed) ==
    LET isMultiDef == findByPointer(pntr) = "null"
        field == IF isMultiDef THEN findByPointer(parentPointer(pntr)) ELSE pntr
        fieldValue == IF instance[field] = "object" THEN value[field]
                      ELSE IF truthy(ctxValue(field)) THEN ctxValue(field)
                      ELSE ctxInitialValue(field)
        childValues == IF outlined THEN noValues
                       ELSE IF ~isLoading THEN getData("null") ELSE initialValues
        childMode == IF isMultiDef /\ (\/ ~outlined /\ ~has(childValues, pntr)
                                       \/ outlined /\ ~pointerHas(pntr))
                     THEN "create" ELSE mode
        applicable == {x \in visible : startsWith(x, pntr)}
        childVisible == IF prefixed THEN applicable
                        ELSE {substr(x, pntr) : x \in applicable}
        childMapped == _mapSchemaToFieldsets(fieldsets)
        childFields == UNION {{childMapped[i].fields[j] : j \in 1..Len(childMapped[i].fields)} :
                                i \in 1..Len(childMapped)}
        isVisible == [x \in childFields |->
                        visible = {} \/ childVisible = {} \/ x \in childVisible]
        filtered == [i \in 1..Len(childMapped) |->
                        [childMapped[i] EXCEPT
                            !.fields = SelectSeq(@, LAMBDA y : isVisible[y])]]
    IN  IF field = "null" \/ (outlined /\ isMultiDef /\ isNullish(fieldValue))
        THEN Throws(call, pntr)
        ELSE /\ parent' = Append(parent, contextStateLeft(applicable))
             /\ answer' = [call |-> call, includeTests |-> FALSE, data |-> <<>>,
                           ops |-> <<>>, dirty |-> FALSE, error |-> FALSE, pointer |-> pntr]
             /\ mapped' = childMapped
             /\ mode' = childMode
             /\ initialValues' = childValues
             /\ closed' = FALSE
             /\ value' = [x \in childFields |-> undefined]
             /\ initialValue' = [x \in childFields |-> undefined]
             /\ dirty' = [x \in childFields |-> FALSE]
             /\ visible' = IF visible = {} THEN childFields ELSE childVisible
             /\ fieldVisible' = isVisible
             /\ sets' = IF visible = {} THEN childMapped
                        ELSE SelectSeq(filtered, LAMBDA x : Len(x.fields) > 0)
             /\ instance' = [x \in childFields |-> "undefined"]
             /\ directive' = [x \in childFields |-> "none"]
             /\ onCreate' = [x \in childFields |-> "none"]
             /\ readyTimer' = FALSE
             /\ lastReadyState' = FALSE
             /\ readyEvent' = "none"
             /\ fieldValidation' = [x \in childFields |-> Pristine]
             /\ aliased' = (visible = {})
             /\ pending' = <<>>
             /\ runs' = [r \in RunIds |-> FreeRun]
             /\ validating' = FALSE
             /\ changePending' = {}
             /\ buffer' = {}
             /\ UNCHANGED <<cacheVars, linked, agents, mapper, items, resources, validateOnceReady,
                            onCreateBound, registeredFieldTypes>>

\* createChildFromPointer(pointer); `found` tells whether the cache has the
\* schema that the field refers to.
CreateChildFromPointer(pointer, found) ==
    /\ Len(parent) < MaxDepth
    /\ IF pointer \notin schemaPointers \/ (hasRef(pointer) /\ ~found)
       THEN Throws("createChildFromPointer", pointer)
       ELSE createChildFromNavigator("createChildFromPointer", childFieldsets(pointer),
                                     pointer, hasRef(pointer), ~hasRef(pointer))

\* createChildFromAgent(agent, pointer) for an agent of the entity schema;
\* `related` tells whether the agent is a child of the agent of this form.
CreateChildFromAgent(related, pointer) ==
    /\ Len(parent) < MaxDepth
    /\ IF ~related THEN Throws("createChildFromAgent", pointer)
       ELSE createChildFromNavigator("createChildFromAgent", entityForm, pointer, TRUE, FALSE)

\* The initial values of an office.
officeValues ==
    [p \in InitialPointers |->
        CASE p = "/id" -> "7"
          [] p = "/name" -> "Acme"
          [] p = "/address" -> "object"
          [] p = "/address/street" -> "Main St"
          [] OTHER -> undefined]

\* The pointers a child is asked for.
ChildPointers == {"/address", "/parentId", "/address/street", "/name", "/unknown"}

\* What the user can enter in a field of the office or of its children.
OfficeEdits(field) == IF metaType(field) = "integer" THEN {"7"} ELSE {"Bolt"}

\* The office form in edit or create mode.
InitChild ==
    /\ InitContext(officeForm, officeValues)
    /\ mode \in {"edit", "create"}
    /\ validateOnceReady = FALSE
    /\ onCreateBound = FALSE

\* No validation is under way.
idle == ~validating /\ pending = <<>> /\ \A r \in RunIds : runs[r] = FreeRun

\* The fields of the context at hand are mounted, edited and hidden and
\* children are made of it; a child is validated and reset as well.  The
\* host waits for a validation to finish before it does anything else.
NextChild ==
    \/ \E field \in Mountable : NgOnInit(field, "noComponent")
    \/ \E field \in Fields : \E val \in OfficeEdits(field) :
            idle /\ (parent # <<>> \/ field = "/id") /\ SetValue(field, val)
    \/ \E val \in {{}, {"/address"}} : idle /\ SetVisible(val)
    \/ parent # <<>> /\ idle /\ Reset
    \/ parent # <<>> /\ idle /\ Validate
    \/ \E i \in 1..MaxPending : SettleFieldValidation(i)
    \/ \E r \in RunIds, outcome \in SchemaOutcomes : CheckFieldset(r, outcome)
    \/ ValidateResolved
    \/ \E pointer \in ChildPointers, found \in BOOLEAN : CreateChildFromPointer(pointer, found)
    \/ \E pointer \in {"/parentId", "/unknown"}, related \in BOOLEAN :
            CreateChildFromAgent(related, pointer)

SpecChild == InitChild /\ [][NextChild]_vars

(***************************************************************************)
(* SimplifiedResourceMapper.  A JSON value is written as a text: a number  *)
(* by its digits, a text of digits or letters between quotes when it       *)
(* stands where a number is expected, null and undefined by their names.   *)
(***************************************************************************)
\* Most items handed to transform at once.
MaxItems == 3

\* A number that parseInt answers: a finite integer or NaN.
Num(n) == [nan |-> FALSE, n |-> n]
NaN == [nan |-> TRUE, n |-> 0]

\* parseInt(raw, 10): the leading digits of the text of the value.
parseInt(raw) ==
    CASE raw = "0" -> Num(0)
      [] raw = "1" -> Num(1)
      [] raw = "2" -> Num(2)
      [] raw = "'10'" -> Num(10)
      [] raw = "'3px'" -> Num(3)
      [] OTHER -> NaN

\* a === b and a > b on numbers: both are false as soon as one is NaN.
strictEquals(a, b) == ~a.nan /\ ~b.nan /\ a.n = b.n
greaterThan(a, b) == ~a.nan /\ ~b.nan /\ a.n > b.n

\* a || b
or(a, b) == IF truthy(a) THEN a ELSE b

\* item[name]
prop(item, name) == IF name \in DOMAIN item THEN item[name] ELSE undefined

\* String(val)
String(val) == val

\* The place of a text in the collation of the locale: lower case before
\* upper case of the same letter, letters in the order of the alphabet.
localeRank(text) ==
    CASE text = "" -> 0
      [] text = "a" -> 1
      [] text = "b" -> 2
      [] text = "B" -> 3
      [] OTHER -> 4

\* a.localeCompare(b)
localeCompare(a, b) ==
    IF localeRank(a) < localeRank(b) THEN -1
    ELSE IF localeRank(a) > localeRank(b) THEN 1 ELSE 0

\* getDisplayName(item); no field of the model has a display template.
getDisplayName(item) ==
    IF mapper.label = undefined
    THEN or(or(or(prop(item, "name"), prop(item, "displayName")),
               prop(item, "internalName")), prop(item, "entity"))
    ELSE prop(item, mapper.label)

\* getOrder(item)
getOrder(item) ==
    IF mapper.order = undefined
    THEN LET parsed == parseInt(prop(item, "order"))
         IN  IF parsed.nan \/ parsed.n = 0 THEN Num(0) ELSE parsed
    ELSE parseInt(prop(item, mapper.order))

\* this.schema.getIdentityValue(item) throws: the schema names no identity
\* property, or the item lacks it and the navigator is strict about that.
schemaIdentityThrows(item) ==
    \/ mapper.identity = undefined
    \/ mapper.strict /\ prop(item, mapper.identity) = undefined

\* getIdentityValue(item); a target identity of the model is a property
\* name of more than one character.
getIdentityValue(item) ==
    IF mapper.value # undefined THEN prop(item, mapper.value)
    ELSE IF mapper.targetIdentity # undefined THEN prop(item, mapper.targetIdentity)
    ELSE IF ~schemaIdentityThrows(item) THEN prop(item, mapper.identity)
    ELSE or(or(prop(item, "id"), prop(item, "name")), prop(item, "entity"))

\* getParentValue(item)
getParentValue(item) ==
    IF mapper.parent = undefined THEN prop(item, "parent") ELSE prop(item, mapper.parent)

\* getDescription(item)
getDescription(item) ==
    IF mapper.description = undefined THEN prop(item, "description")
    ELSE prop(item, mapper.description)

\* The resource that the map step of transform makes of an item.
simplify(item, includeOriginal) ==
    [name |-> getDisplayName(item),
     description |-> getDescription(item),
     order |-> getOrder(item),
     value |-> getIdentityValue(item),
     parent |-> getParentValue(item),
     original |-> IF includeOriginal THEN item ELSE [null |-> TRUE]]

\* The comparator that transform hands to sort.
compare(a, b) ==
    IF strictEquals(a.order, b.order) THEN localeCompare(String(a.name), String(b.name))
    ELSE IF greaterThan(a.order, b.order) THEN 1
    ELSE -1

\* The comparator is a consistent comparison of the elements of the list.
consistent(list) ==
    \A i, j \in 1..Len(list) : i # j => compare(list[i], list[j]) = -compare(list[j], list[i])

\* The lists that hold the elements of the list in another order.
permutations(list) ==
    {[k \in 1..Len(list) |-> list[f[k]]] :
        f \in {g \in [1..Len(list) -> 1..Len(list)] : \A i, j \in 1..Len(list) : g[i] = g[j] => i = j}}

\* Array.prototype.sort: the elements in an order the comparator agrees
\* with; with a comparator that is not consistent the order is up to the
\* engine.
sort(list) ==
    IF consistent(list)
    THEN {r \in permutations(list) : \A i, j \in 1..Len(r) : i < j => compare(r[i], r[j]) <= 0}
    ELSE permutations(list)

\* transform(items, includeOriginal): what it can return.
transform(includeOriginal) ==
    sort([k \in 1..Len(items) |-> simplify(items[k], includeOriginal)])

\* The host has the items transformed.
Transform(includeOriginal) ==
    /\ \E list \in transform(includeOriginal) :
            resources' = [called |-> TRUE, list |-> list]
    /\ UNCHANGED <<mapper, items, parent, linked, agents, cacheVars, formVars>>

\* An item of a linked collection.
Item(name, order, rank, id, key, uuid) ==
    [name |-> name, entity |-> "unit", order |-> order, rank |-> rank, id |-> id,
     key |-> key, uuid |-> uuid]

\* The items that the linked collections hold.
ItemPool ==
    { Item("a", "2", "'abc'", "7", "k1", "u1"),
      Item("B", "2", "1", "0", undefined, "u2"),
      Item("b", "'10'", "2", undefined, "k3", undefined),
      Item("a", "'abc'", "'3px'", "0", "k4", "u4"),
      Item(undefined, undefined, undefined, undefined, undefined, undefined),
      Item("", "1", "null", "7", undefined, undefined) }

\* field.data and field.targetIdentity of the descriptor and the identity
\* property of the target schema.
Mapper(order, valueProperty, targetIdentity, identity, strict) ==
    [label |-> undefined, description |-> undefined, parent |-> undefined, order |-> order,
     value |-> valueProperty, targetIdentity |-> targetIdentity, identity |-> identity,
     strict |-> strict]

Mappers ==
    {Mapper(order, valueProperty, targetIdentity, identity, strict) :
        order \in {undefined, "rank"}, valueProperty \in {undefined, "key"},
        targetIdentity \in {undefined}, identity \in {undefined, "uuid"},
        strict \in BOOLEAN}
    \cup {Mapper(undefined, undefined, "uuid", "uuid", TRUE)}

\* The lists of at most n items.
ItemLists(n) == UNION {[1..k -> ItemPool] : k \in 0..n}

\* A mapper for a field and the items of its linked collection.
InitMapper ==
    /\ rev = "removeBy"
    /\ cache = <<>>
    /\ promises = <<>>
    /\ last = NoCall
    /\ NoForm
    /\ mapper \in Mappers
    /\ items \in ItemLists(MaxItems)
    /\ resources = [called |-> FALSE, list |-> <<>>]
    /\ parent = <<>>
    /\ linked = NoStream
    /\ agents = NoAgents

NextMapper == \E includeOriginal \in BOOLEAN : Transform(includeOriginal)

SpecMapper == InitMapper /\ [][NextMapper]_vars

\* The address form is mounted, filled in, destroyed and mounted again.
NextReuse ==
    \/ \E field \in Mountable : NgOnInit(field, "noComponent")
    \/ \E field \in Fields : NgOnDestroy(field)
    \/ FieldReadyDebounced
    \/ \E field \in Fields, val \in ValidationEdits : SetValue(field, val)
    \/ \E field \in Fields : FieldChanged(field)
    \/ \E i \in 1..MaxPending : SettleFieldValidation(i)
    \/ Destroy

SpecReuse == InitChange /\ [][NextReuse]_vars

(***************************************************************************)
(* CachedDataProvider.resolveAgent and resolveAgentChild. agents.memo holds *)
(* the promise stored under a key, a key that is absent holding none.      *)
(***************************************************************************)
\* Most agent promises stored in one run.
MaxAgents == 2

\* forceReload as the callers give it: true, false or not at all.
ForceReloads == {"true", "false", "undefined"}

\* const cacheKey = schemaId + linkName, and the same + 'child'
agentCacheKey(schemaId, linkName) == schemaId \o linkName
agentChildCacheKey(schemaId, linkName) == schemaId \o linkName \o "child"

\* this.agents[cacheKey], null when nothing is stored under the key.
memoizedAgent(state, key) == IF key \in DOMAIN state.memo THEN state.memo[key] ELSE null

\* this.agents[cacheKey] && forceReload !== false
isAgentMemoized(state, key, forceReload) ==
    memoizedAgent(state, key) # null /\ forceReload # "false"

agentCall(op, key, forceReload, promise, fresh, stored, failed) ==
    [op |-> op, key |-> key, force |-> forceReload, promise |-> promise, fresh |-> fresh,
     stored |-> stored, error |-> failed]

\* The promise stored under the key and listed among those made.
storeAgent(state, op, key, forceReload, schemaId, linkName, via) ==
    LET id == Len(state.made) + 1
    IN  [memo |-> [k \in DOMAIN state.memo \cup {key} |->
                        IF k = key THEN id ELSE state.memo[k]],
         made |-> Append(state.made, [schemaId |-> schemaId, link |-> linkName,
                                      force |-> forceReload, via |-> via,
                                      status |-> "pending"]),
         call |-> agentCall(op, key, forceReload, id, TRUE, TRUE, FALSE)]

crudLinks == {"create", "read", "update", "delete", "list"}

\* agent.schema.hasLinkUriTemplatePointers(link)
hasLinkUriTemplatePointers(schemaId, linkName) == linkPointers(schemaId, linkName) # {}

\* resolveAgentChild(agent, linkName, context, forceReload, forceResolveChild)
\* on the agent of schemaId: the provider as the call leaves it. A promise
\* that is resolved on the spot is new and is not stored; a link the schema
\* does not have makes the call throw.
resolveAgentChildFrom(state, schemaId, linkName, forceReload, forceResolveChild) ==
    LET key == agentChildCacheKey(schemaId, linkName)
        op == "resolveAgentChild"
    IN  IF isAgentMemoized(state, key, forceReload)
        THEN [state EXCEPT !.call = agentCall(op, key, forceReload, memoizedAgent(state, key),
                                              FALSE, FALSE, FALSE)]
        ELSE IF linkName \in crudLinks
        THEN [state EXCEPT !.call = agentCall(op, key, forceReload, null, TRUE, FALSE, FALSE)]
        ELSE IF linkName \notin LinkNames
        THEN [state EXCEPT !.call = agentCall(op, key, forceReload, null, FALSE, FALSE, TRUE)]
        ELSE IF ~forceResolveChild /\ hasLinkUriTemplatePointers(schemaId, linkName)
        THEN [state EXCEPT !.call = agentCall(op, key, forceReload, null, TRUE, FALSE, FALSE)]
        ELSE storeAgent(state, op, key, forceReload, schemaId, linkName, "createChildByLink")

\* What a call on the provider of the agents leaves alone.
agentFrame == <<cacheVars, formVars, mapper, items, resources, parent, linked>>

\* A component calls resolveAgentChild with an agent of the schema.
ResolveAgentChild(schemaId, linkName, forceReload, forceResolveChild) ==
    /\ agents' = resolveAgentChildFrom(agents, schemaId, linkName, forceReload,
                                       forceResolveChild)
    /\ Len(agents'.made) <= MaxAgents
    /\ UNCHANGED agentFrame

\* resolveAgent(schemaId, linkName, context, forceReload); `found` tells
\* whether the resolver has an agent for the schema.
ResolveAgent(schemaId, linkName, forceReload, found) ==
    LET key == agentCacheKey(schemaId, linkName)
        op == "resolveAgent"
    IN  /\ agents' =
             IF isAgentMemoized(agents, key, forceReload)
             THEN [agents EXCEPT !.call = agentCall(op, key, forceReload,
                                                    memoizedAgent(agents, key),
                                                    FALSE, FALSE, FALSE)]
             ELSE IF ~found
             THEN [agents EXCEPT !.call = agentCall(op, key, forceReload, null,
                                                    FALSE, FALSE, TRUE)]
             ELSE storeAgent(agents, op, key, forceReload, schemaId, linkName, "getAgent")
        /\ Len(agents'.made) <= MaxAgents
        /\ UNCHANGED agentFrame

\* An agent promise settles. The continuation of a promise of resolveAgent
\* hands the agent to resolveAgentChild with the forceReload of the call.
AgentSettled(id, outcome) ==
    /\ id \in 1..Len(agents.made)
    /\ agents.made[id].status = "pending"
    /\ LET settled == [agents EXCEPT !.made[id].status = outcome]
       IN  IF outcome = "resolved" /\ agents.made[id].via = "getAgent"
           THEN agents' = resolveAgentChildFrom(settled, agents.made[id].schemaId,
                                    agents.made[id].link, agents.made[id].force, FALSE)
           ELSE agents' = settled
    /\ Len(agents'.made) <= MaxAgents
    /\ UNCHANGED agentFrame

\* The links agents are asked for: a standard link, a link with template
\* pointers, and one the schema does not have.
AgentLinks == LinkNames \cup {"unknown"}

\* The components of a form ask the provider for agents.
NextAgents ==
    \/ \E linkName \in AgentLinks, forceReload \in ForceReloads, found \in BOOLEAN :
            ResolveAgent("schemaA", linkName, forceReload, found)
    \/ \E linkName \in AgentLinks, forceReload \in ForceReloads,
           forceResolveChild \in BOOLEAN :
            ResolveAgentChild("schemaA", linkName, forceReload, forceResolveChild)
    \/ \E id \in 1..MaxAgents, outcome \in {"resolved", "rejected"} : AgentSettled(id, outcome)

InitAgents == InitCache /\ rev = "removeBy"

SpecAgents == InitAgents /\ [][NextAgents]_vars

(***************************************************************************)
(* LinkedDataProvider of one field of the entity form. The link of the     *)
(* field is on the schema of the form and its uri template takes the name  *)
(* and the parent of the entity.                                           *)
(***************************************************************************)
\* The quiet interval of the context stream, in milliseconds.
contextStreamValueDebounceTime == 350

\* The clock is looked at every so many milliseconds.
TickMs == 175

\* agent.schema.schemaId and field.meta.field.link
linkedSchemaId == "entity"
linkedLink == "read-items"

\* agent.schema.getLinkUriTemplatePointers(link), in the order of its keys.
getLinkUriTemplatePointers == <<"/name", "/parentId">>

templatePointers == {getLinkUriTemplatePointers[k] : k \in DOMAIN getLinkUriTemplatePointers}

\* getFieldValue(matcher) for the field at the pointer.
getFieldValueByPointer(pointer) ==
    IF findByPointer(pointer) = "null" THEN undefined
    ELSE IF instance[pointer] = "object" THEN value[pointer]
    ELSE getFieldInitialValue(pointer)

\* getLinkContext(link): the values of the template variables as they are now.
getLinkContext ==
    [k \in DOMAIN getLinkUriTemplatePointers |->
        getFieldValueByPointer(getLinkUriTemplatePointers[k])]

isDynamicHyperSchemaLink == \E pointer \in templatePointers : pointer \in visible

\* The fields whose `changed` streamLinkContext merges: those of the template
\* that are in the visible list and have an instance when the stream is made.
streamLinkContext ==
    {pointer \in templatePointers :
        /\ pointer \in visible
        /\ findByPointer(pointer) # "null"
        /\ instance[pointer] \notin {"null", "undefined"}}

\* resolveLinkedData that hands out the memoized promise even when forced.
isCachedLocallyForced(forceReload) == linked.data # null

\* if (forceReload !== true) { if (this.data != null) return this.data; }
isCachedLocally(forceReload) == ~forceReload /\ linked.data # null

\* resolveLinkedData(context, forceReload) as far as the provider and the
\* cache go; the promise it returns is resolvedLinkedData(forceReload).
resolveLinkedData(context, forceReload) ==
    IF isCachedLocally(forceReload) THEN UNCHANGED cacheVars
    ELSE resolveDataThroughContext(linkedSchemaId, linkedLink, context, forceReload)

\* The promise resolveLinkedData returned in this step.
resolvedLinkedData(forceReload) ==
    IF isCachedLocally(forceReload) THEN linked.data ELSE last'.promise

\* concatMap subscribes to the inner observable of a context: the project
\* function calls resolveLinkedData(context, true).
project(state, context) ==
    /\ resolveLinkedData(context, TRUE)
    /\ linked' = [state EXCEPT !.active = resolvedLinkedData(TRUE),
                               !.activeContext = context,
                               !.data = resolvedLinkedData(TRUE)]

\* streamLinkedResource(includeOriginal), subscribed to at once. A link that
\* is not dynamic gives the one result of resolveLinkedResource. A dynamic
\* link merges the `changed` of the fields found, each led by the initial
\* value of the field outside create mode; with no field found the merge is
\* empty and the stream completes.
StreamLinkedResource ==
    /\ linked.stream = "none"
    /\ IF ~isDynamicHyperSchemaLink
       THEN /\ resolveLinkedData(getLinkContext, FALSE)
            /\ linked' = [linked EXCEPT !.stream = "once",
                                        !.active = resolvedLinkedData(FALSE),
                                        !.activeContext = getLinkContext,
                                        !.data = resolvedLinkedData(FALSE)]
       ELSE /\ linked' = [linked EXCEPT
                            !.stream = IF streamLinkContext = {} THEN "complete" ELSE "open",
                            !.observed = streamLinkContext,
                            !.armed = streamLinkContext # {} /\ ~isCreateMode]
            /\ UNCHANGED cacheVars
    /\ readyEvent' = "none"
    /\ UNCHANGED <<mapperVars, hostVars, ctorVars, dataVars, validationVars, visible,
                   fieldVisible, sets, instance, directive, onCreate, readyTimer,
                   lastReadyState, closed>>

\* The user gives a field a value. A change of a field of the template starts
\* or prolongs a burst; debounceTime restarts its timer when the stream is
\* subscribed to the field.
ChangeValue(field, val) ==
    /\ SetFieldValue(field, val)
    /\ linked' = IF valueUnchanged(value[field], val) \/ linked.stream = "none"
                    \/ field \notin templatePointers
                 THEN linked
                 ELSE [linked EXCEPT
                        !.burst = TRUE,
                        !.quiet = 0,
                        !.armed = @ \/ (linked.stream = "open" /\ field \in linked.observed),
                        !.elapsed = IF linked.stream = "open" /\ field \in linked.observed
                                    THEN 0 ELSE @]
    /\ UNCHANGED <<cacheVars, mapperVars>>

\* Time passes. The burst is over once the quiet interval went by without a
\* change; when the timer of debounceTime runs out, getLinkContext is mapped
\* over the event and concatMap takes the context: it subscribes to its
\* fetch at once when no fetch is under way and keeps the context otherwise.
Tick ==
    LET quiet == linked.quiet + TickMs
        elapsed == linked.elapsed + TickMs
        fires == linked.armed /\ elapsed >= contextStreamValueDebounceTime
        state == [linked EXCEPT
                    !.quiet = IF linked.burst /\ quiet < contextStreamValueDebounceTime
                              THEN quiet ELSE 0,
                    !.burst = @ /\ quiet < contextStreamValueDebounceTime,
                    !.elapsed = IF linked.armed /\ ~fires THEN elapsed ELSE 0,
                    !.armed = @ /\ ~fires]
    IN  /\ linked.burst \/ linked.armed
        /\ fires => Len(promises) + Len(linked.queue) < MaxPromises
        /\ IF fires /\ linked.active = null
           THEN project(state, getLinkContext)
           ELSE /\ linked' = IF fires
                             THEN [state EXCEPT !.queue = Append(@, getLinkContext)]
                             ELSE state
                /\ UNCHANGED cacheVars
        /\ readyEvent' = "none"
        /\ UNCHANGED <<mapperVars, hostVars, ctorVars, dataVars, validationVars, visible,
                       fieldVisible, sets, instance, directive, onCreate, readyTimer,
                       lastReadyState, closed>>

\* getSimplifiedResourceMapper(context, forceReload): the memoized mapper
\* unless forced; else resolveAgentChild(agent, link, context, forceReload,
\* true), which hands out the child agent it holds unless forceReload is
\* false and else has the agent make one, which `child` tells the outcome of.
resolveAgentChild(forceReload, child) ==
    IF linked.agent # "none" /\ forceReload THEN linked.agent ELSE child

getSimplifiedResourceMapper(forceReload, child) ==
    IF ~forceReload /\ linked.mapper # "none" THEN linked.mapper
    ELSE resolveAgentChild(forceReload, child)

\* concatMap that turns to the context it was handed last.
concatMapNewest(queue) == queue[Len(queue)]

\* concatMap subscribes to the inner observables one after the other, in the
\* order of the contexts: the next one is the one it kept longest.
concatMapNext(queue) == Head(queue)

\* The continuation of the fetch under way, once its promise has settled. A
\* rejection ends the stream with the error. A result goes through
\* mapMultipleChoice(items, context, isDynamic, includeOriginal): a mapper
\* that cannot be made ends the stream with the error, else the list is
\* emitted and concatMap turns to the context it kept longest.
LinkedDataSettled(child) ==
    LET p == linked.active
        isDynamic == linked.stream = "open"
        made == getSimplifiedResourceMapper(isDynamic, child)
        memos == [linked EXCEPT
                    !.mapper = made,
                    !.agent = IF ~isDynamic /\ linked.mapper # "none" THEN @ ELSE made]
        failed == [memos EXCEPT !.stream = "error", !.observed = {}, !.armed = FALSE,
                                !.elapsed = 0, !.queue = <<>>, !.active = null,
                                !.activeContext = <<>>]
        emitted == [memos EXCEPT
                      !.stream = IF isDynamic THEN "open" ELSE "complete",
                      !.active = null,
                      !.activeContext = <<>>,
                      !.emitted = Append(@, [promise |-> p, context |-> linked.activeContext,
                                             fetched |-> promises[p].context])]
    IN  /\ linked.stream \in {"open", "once"}
        /\ p # null
        /\ promises[p].status # "pending"
        /\ made = child
        /\ IF promises[p].status = "rejected"
           THEN linked' = [failed EXCEPT !.mapper = linked.mapper, !.agent = linked.agent]
                    /\ UNCHANGED cacheVars
           ELSE IF made = "rejected"
           THEN linked' = failed /\ UNCHANGED cacheVars
           ELSE IF linked.queue = <<>>
           THEN linked' = emitted /\ UNCHANGED cacheVars
           ELSE project([emitted EXCEPT !.queue = Tail(@)], concatMapNext(linked.queue))
        /\ readyEvent' = "none"
        /\ UNCHANGED <<mapperVars, hostVars, ctorVars, dataVars, validationVars, visible,
                       fieldVisible, sets, instance, directive, onCreate, readyTimer,
                       lastReadyState, closed>>

\* What the user can enter in the fields of the link template.
LinkedEdits(field) == IF metaType(field) = "integer" THEN {"8"} ELSE {"Acme", "Bolt"}

\* The form of an entity that is edited or made, with the field that asks for
\* the linked data.
InitStream ==
    /\ InitContextWith(entityForm, childEntity, {"text", "dropdown"})
    /\ mode \in {"edit", "create"}
    /\ validateOnceReady = FALSE
    /\ onCreateBound = FALSE

\* The fields are mounted and edited, the field asks for the stream of its
\* linked data, time passes and the agent answers.
NextStream ==
    \/ \E field \in Mountable : NgOnInit(field, "noComponent")
    \/ \E val \in {{}, {"/name"}} : linked.stream = "none" /\ SetVisible(val)
    \/ StreamLinkedResource
    \/ \E field \in Fields : \E val \in LinkedEdits(field) : ChangeValue(field, val)
    \/ Tick
    \/ \E p \in PromiseIds, outcome \in {"resolved", "rejected"} : Settle(p, outcome)
    \/ \E child \in {"resolved", "rejected"} : LinkedDataSettled(child)

SpecStream == InitStream /\ [][NextStream]_vars

\* The same with the timers of the browser running out and every promise
\* settling and running its continuations in the end.
SpecStreamFair ==
    /\ SpecStream
    /\ WF_vars(Tick)
    /\ WF_vars(\E p \in PromiseIds, outcome \in {"resolved", "rejected"} : Settle(p, outcome))
    /\ WF_vars(\E child \in {"resolved", "rejected"} : LinkedDataSettled(child))

(***************************************************************************)
(* Properties of the cache and of the provider.                            *)
(***************************************************************************)
SameKey(a, b) == a.schemaId = b.schemaId /\ a.link = b.link

\* The agent calls made so far for a key, and those among them of some kind.
CallsFor(schemaId, link) ==
    {p \in DOMAIN promises : promises[p].schemaId = schemaId /\ promises[p].link = link}

PendingFor(schemaId, link) ==
    {p \in CallsFor(schemaId, link) : promises[p].status = "pending"}

ForcedFor(schemaId, link) ==
    {p \in CallsFor(schemaId, link) : promises[p].forced}

Latest(S) == CHOOSE p \in S : \A q \in S : q <= p

NoForcedCall == \A p \in DOMAIN promises : ~promises[p].forced

\* C1: as long as only non-forced resolveDataThrough calls are made, a call for
\* a key that has a pending fetch starts no agent call and returns that pending
\* promise, whatever calls for other keys came in between.
C1_LoadCollapsing ==
    [][\A schemaId \in SchemaIds, link \in LinkNames :
        (/\ NoForcedCall
         /\ PendingFor(schemaId, link) # {}
         /\ resolveDataThrough(schemaId, link, FALSE))
        => (promises' = promises /\ last'.promise \in PendingFor(schemaId, link))]_vars

\* C2: push(K, P1) followed by push(K, P2) leaves fetch(K) = P2, whatever the
\* cache held before.
C2_LastWriteWins ==
    [][\A schemaId \in SchemaIds, link \in LinkNames, state \in PromiseIds :
        (/\ last.op = "push" /\ last.schemaId = schemaId /\ last.link = link
         /\ Push(schemaId, link, state))
        => fetch(cache', schemaId, link, undefined) = state]_vars

\* C3: the cache never holds two items of the same (schemaId, link) pair.
C3_OneEntryPerKey ==
    \A i, j \in 1..Len(cache) : SameKey(cache[i], cache[j]) => i = j

\* C4: purge(S) leaves exactly the items that match S neither as schemaId nor
\* as targetSchemaId, all of them.
C4_PurgeRemovesBoth ==
    [][\A schemaId \in SchemaIds :
        Purge(schemaId)
        => cache' = SelectSeq(cache, LAMBDA item : ~purgeSelector(item, schemaId))]_vars

\* C5: invalidate(S, props) removes exactly the items of schema S whose
\* dependency properties intersect props (all items of S when props is
\* omitted) and leaves every other item in place.
C5_InvalidateExact ==
    [][\A schemaId \in SchemaIds, hasProperties \in BOOLEAN, properties \in SUBSET Props :
        Invalidate(schemaId, hasProperties, properties)
        => cache' = SelectSeq(cache, LAMBDA item :
                        ~invalidateSelector(item, schemaId, hasProperties, properties))]_vars

\* C6: a forced call for a key that is cached starts a new agent call, and a
\* later non-forced call for the key returns the promise of the latest forced
\* call, never an older one.
C6_ForcedReloadReplaces ==
    [][\A schemaId \in SchemaIds, link \in LinkNames :
        /\ (fetch(cache, schemaId, link, undefined) # null
                /\ resolveDataThrough(schemaId, link, TRUE))
            => (Len(promises') = Len(promises) + 1 /\ last'.promise = Len(promises'))
        /\ (ForcedFor(schemaId, link) # {}
                /\ resolveDataThrough(schemaId, link, FALSE))
            => last'.promise = Latest(ForcedFor(schemaId, link))]_vars

\* C7: once the latest agent call for a key has rejected, a non-forced call
\* for the key starts no agent call and returns that rejected promise.
C7_NoRetryAfterReject ==
    [][\A schemaId \in SchemaIds, link \in LinkNames :
        (/\ CallsFor(schemaId, link) # {}
         /\ promises[Latest(CallsFor(schemaId, link))].status = "rejected"
         /\ resolveDataThrough(schemaId, link, FALSE))
        => (promises' = promises
            /\ last'.promise = Latest(CallsFor(schemaId, link)))]_vars

(***************************************************************************)
(* Properties of the readiness of the form.                                *)
(***************************************************************************)
VisibleFields == {x \in Fields : fieldVisible[x]}

Regressed == lastReadyState /\ ~isReady

\* C9: once ready$ has emitted true and the form has regressed into a loading
\* state, the form comes out of that state, other than by another change of
\* visible, only with ready$ emitting false: false is emitted before the form
\* can be ready again.
C9_RegressEmitsFalse ==
    [][(Regressed /\ ~Regressed' /\ visible' = visible)
       => readyEvent' = "false"]_vars

\* C10: a field whose directive ended in error() has a null instance.
C10_ErrorMarksUnavailable ==
    \A x \in Fields : directive[x] \in DirectiveErrors => instance[x] = "null"

\* C11: without destroy(), no step (mount, directive destroy, visibility
\* change, reset, edit, ready handler) takes the instance of a field from null
\* or an object back to undefined.
C11_InstanceNeverRegresses ==
    [][~Destroy => \A x \in Fields : instance[x] # "undefined" => instance'[x] # "undefined"]_vars

\* An edited field whose directive is gone still carries its instance while
\* another field is hidden.
C11_Witness ==
    \E x \in Fields : /\ instance[x] = "object" /\ directive[x] = "none" /\ dirty[x]
                       /\ \E y \in Fields : ~fieldVisible[y]

\* The value of a field is empty: nothing, an empty text or an empty list.
isEmptyValue(field) == isNullish(value[field]) \/ value[field] \in {"", "[]"}

\* What validateField answers for a field once its promise resolves.
validateFieldAnswer(field) ==
    IF isEmptyValue(field)
    THEN IF isRequired(field) THEN Failure(requiredMessage) ELSE Pristine
    ELSE IF hasValidate(field) THEN customResult(field, value[field])
    ELSE schemaResult(field, value[field])

\* C12: validateField on a mounted field answers an error when the value is
\* empty and the field required, pristine when it is empty and the field not
\* required, else the answer of the validate() of the field instance when it
\* has one, else the answer of the schema validator for the pointer and value.
C12_ValidateFieldOrder ==
    [][\A x \in Fields :
            (FieldChanged(x) /\ ~closed /\ instance[x] = "object") =>
                \/ fieldValidation'[x] = validateFieldAnswer(x) /\ pending' = pending
                \/ pending' = Append(pending, [field |-> x, run |-> 0,
                                               result |-> validateFieldAnswer(x)])]_vars

\* C13: validateFieldset, called with validateFields true or false, never
\* runs the schema check of the fieldset while a member field of the fieldset
\* has an invalid validation result.
C13_NoCheckWhileFieldInvalid ==
    [][\A r \in RunIds : \A outcome \in SchemaOutcomes :
            (CheckFieldset(r, outcome) /\ runs[r].valid) =>
                \A i \in 1..Len(runs[r].fields) :
                    fieldValidation[runs[r].fields[i]].valid]_vars

\* The validateFieldset calls of the validate() in flight, for the fieldsets
\* with pointer '/' and for the nested ones.
rootRuns ==
    {r \in RunIds : runs[r].owner = "validate" /\ fieldsetById(mapped, runs[r].set).pointer = "/"}

nestedRuns ==
    {r \in RunIds : runs[r].owner = "validate" /\ fieldsetById(mapped, runs[r].set).pointer # "/"}

\* C14 as stated: in every run of validate() the validation result of a root
\* fieldset (pointer '/') is determined only once the results of all nested
\* fieldsets are known.
C14_RootResultAfterNested ==
    [][\A r \in rootRuns : \A outcome \in SchemaOutcomes :
            CheckFieldset(r, outcome) => \A q \in nestedRuns : runs[q].phase = "done"]_vars

\* C14 amended: in every run of validate() validateFieldset is called for a
\* root fieldset after it was called for every nested visible fieldset, and
\* validate() resolves, suppressing duplicates, only once the results of all
\* its fieldsets are known.
C14_RootCalledLast ==
    [][/\ \A r \in RunIds, q \in RunIds :
            (/\ runs'[r].owner = "validate" /\ runs'[q].owner = "validate"
             /\ fieldsetById(mapped, runs'[r].set).pointer = "/"
             /\ fieldsetById(mapped, runs'[q].set).pointer # "/")
                => runs'[r].order > runs'[q].order
       /\ (validating /\ ~validating') =>
                \A r \in rootRuns \cup nestedRuns : runs[r].phase = "done"]_vars

\* C14: a validate() is in flight, the check of the root fieldset is done and
\* a nested fieldset still waits for the result of a field.
C14_Witness ==
    /\ validating
    /\ \E r \in rootRuns, q \in nestedRuns :
            /\ runs[r].phase = "done" /\ runs[r].order > runs[q].order
            /\ runs[q].phase = "fields" /\ runs[q].waiting > 0

\* C15: when validate() resolves, no visible root fieldset (pointer '/') is
\* left invalid with the error message of an invalid nested fieldset.
C15_NoDuplicateOnRoot ==
    [][(validating /\ ~validating') =>
            ~\E i \in 1..Len(sets'), j \in 1..Len(sets') :
                /\ sets'[i].pointer = "/" /\ ~sets'[i].validation.valid
                /\ sets'[j].pointer # "/" /\ ~sets'[j].validation.valid
                /\ sets'[i].validation.message = sets'[j].validation.message]_vars

\* The fieldsets of mapped that own the pointer.
owners(pointer) ==
    {i \in 1..Len(mapped) : \E j \in 1..Len(mapped[i].fields) : mapped[i].fields[j] = pointer}

\* C16: setting visible to an empty list makes every field visible and sets
\* equal to all mapped fieldsets; setting it to a list with a single field
\* pointer makes sets contain only the fieldsets owning that pointer, each
\* holding only the field at that pointer.
C16_EmptyAndSinglePointer ==
    [][\A val \in VisibleInputs : SetVisible(val) =>
            /\ val = {} => (\A x \in Fields : fieldVisible'[x]) /\ sets' = mapped'
            /\ \A x \in Fields : val = {x} =>
                    /\ Len(sets') = Cardinality(owners(x))
                    /\ \A i \in 1..Len(sets') :
                            /\ sets'[i].fields = <<x>>
                            /\ \E m \in owners(x) : mapped[m].id = sets'[i].id]_vars

\* C16: visible was set to the pointer of one of the two fields of the first
\* of three fieldsets: sets holds that fieldset alone, with that field alone.
C16_Witness ==
    /\ visible = {"/name"}
    /\ Len(mapped) = 3 /\ Len(mapped[1].fields) = 2
    /\ Len(sets) = 1 /\ sets[1].id = mapped[1].id /\ sets[1].fields = <<"/name">>
    /\ instance["/name"] = "object"

\* The part of a fieldset that the schema and the visibility decide.
shape(set) == [id |-> set.id, pointer |-> set.pointer, fields |-> set.fields]

\* The mapped fieldsets restricted to the fields in the visibility list, all
\* fields when the list is empty.
restricted ==
    [i \in 1..Len(mapped) |->
        [id |-> mapped[i].id, pointer |-> mapped[i].pointer,
         fields |-> SelectSeq(mapped[i].fields, LAMBDA y : visible = {} \/ y \in visible)]]

\* C17: from construction on and after any assignments to visible, sets
\* consists exactly of the mapped fieldsets in mapped order, each restricted
\* to its fields whose pointer is in the visibility list (all fields when the
\* list is empty), the fieldsets without a visible field left out.
C17_SetsIsFilteredMapped ==
    [i \in 1..Len(sets) |-> shape(sets[i])] = SelectSeq(restricted, LAMBDA x : Len(x.fields) > 0)

\* C17: a list with the pointer of one of two fields of a fieldset and a
\* pointer of no field: one fieldset is restricted, the others are left out.
C17_Witness ==
    /\ visible = {"/name", "/unknown"}
    /\ Len(sets) = 1 /\ sets[1].fields = <<"/name">> /\ Len(mapped) > 1

\* The field components are as they were created: no value was edited.
unmodified ==
    \A x \in Fields : instance[x] = "object" =>
        /\ value[x] = initializeFieldValue(x).value
        /\ initialValue[x] = initializeFieldValue(x).initialValue
        /\ dirty[x] = initializeFieldValue(x).dirty

\* The initial value of the field is one a field that is not required holds
\* for nothing: an empty text, no number, an empty list.
voidInitialValue(x) ==
    /\ ~isRequired(x)
    /\ \/ metaType(x) = "string" /\ initialValues[x] = ""
       \/ metaType(x) = "integer" /\ initialValues[x] = "null"
       \/ metaType(x) = "array" /\ initialValues[x] \in {"null", "[]"}

mounted == \A x \in Mountable : instance[x] = "object"

onlyEdited(x) ==
    /\ instance[x] = "object" /\ dirty[x]
    /\ value[x] # initializeFieldValue(x).value
    /\ ~isNullish(value[x]) /\ value[x] \notin {"", "[]"}
    /\ initialValue[x] = initializeFieldValue(x).initialValue
    /\ \A y \in Fields \ {x} : instance[y] = "object" =>
            /\ value[y] = initializeFieldValue(y).value
            /\ initialValue[y] = initializeFieldValue(y).initialValue
            /\ dirty[y] = initializeFieldValue(y).dirty

\* The test of the previous value of the field.
testOperation(x) == [op |-> "test", path |-> x, value |-> initialValue[x]]

\* C20 as stated: after exactly one field of an otherwise unmodified form is
\* set to a new non-empty value, getPatchOperations(includeTests) returns one
\* value operation at the pointer of the field, 'replace' when the field had
\* a value and 'add' when it had none, preceded by a 'test' of the previous
\* value when includeTests is true.
C20_OneEditOneOperation ==
    [][\A includeTests \in BOOLEAN : \A x \in Fields :
            (GetPatchOperations(includeTests) /\ onlyEdited(x)) =>
                answer'.ops =
                    (IF includeTests THEN <<testOperation(x)>> ELSE <<>>) \o
                    << [op |-> IF has(initialValues, x) THEN "replace" ELSE "add",
                        path |-> x, value |-> value[x]] >>]_vars

\* C20 amended: in view or edit mode, and in copy or create mode without
\* initial values, after exactly one field of an otherwise unmodified form is
\* set to a new non-empty value, getPatchOperations(includeTests) returns one
\* value operation at the pointer of the field: 'replace' when the initial
\* values had a value for it, preceded by a 'test' of that value when
\* includeTests is true, and 'add' alone, without a 'test', when they had none.
C20_OneEditReplaceTestedOrAdd ==
    [][\A includeTests \in BOOLEAN : \A x \in Fields :
            (/\ GetPatchOperations(includeTests) /\ onlyEdited(x)
             /\ (~isCreateMode \/ isEmptyInitialValues)) =>
                answer'.ops =
                    IF has(initialValues, x)
                    THEN (IF includeTests
                          THEN << [op |-> "test", path |-> x, value |-> initialValues[x]] >>
                          ELSE <<>>) \o
                         << [op |-> "replace", path |-> x, value |-> value[x]] >>
                    ELSE << [op |-> "add", path |-> x, value |-> value[x]] >>]_vars

\* C20: the name of an existing entity was changed and the patch with tests
\* was asked for: a test of the old name and the replacement.
C20_Witness ==
    /\ onlyEdited("/name") /\ mode = "edit" /\ initialValues = addressValues
    /\ answer.call = "getPatchOperations" /\ answer.includeTests
    /\ answer.ops = << [op |-> "test", path |-> "/name", value |-> "Acme"],
                       [op |-> "replace", path |-> "/name", value |-> "Bolt"] >>

\* The entity form opened in create mode for a new entity with an empty name
\* and no parent, with both fields mounted.
newEntityMounted ==
    /\ mapped = _mapSchemaToFieldsets(entityForm)
    /\ mode = "create" /\ initialValues = blankEntity
    /\ \A x \in Fields : instance[x] = "object"

\* The name of the new entity was set to "Acme" and nothing else was touched.
namedAcme == onlyEdited("/name") /\ value["/name"] = "Acme"

\* C21 as stated: for the new entity form in create mode with the initial
\* values {name: "", parentId: null} and mounted fields, isDirty() is false
\* before any edit; after /name is set to "Acme", isDirty() is true and
\* getPatchOperations() returns exactly the 'add' of "Acme" at /name.
C21_CleanUntilNamed ==
    [][/\ (IsDirty /\ newEntityMounted /\ unmodified) => ~answer'.dirty
       /\ (IsDirty /\ newEntityMounted /\ namedAcme) => answer'.dirty
       /\ (GetPatchOperations(TRUE) /\ newEntityMounted /\ namedAcme) =>
            answer'.ops = << [op |-> "add", path |-> "/name", value |-> "Acme"] >>]_vars

\* C21 amended: for the new entity form in create mode with the initial
\* values {name: "", parentId: null} and mounted fields, isDirty() is true
\* already before any edit, as both fields start dirty; after /name is set
\* to "Acme", isDirty() is true and getPatchOperations() returns the 'add' of
\* "Acme" at /name followed by the 'add' of null at /parentId.
C21_DirtyFromTheStart ==
    [][/\ (IsDirty /\ newEntityMounted /\ unmodified) => answer'.dirty
       /\ (IsDirty /\ newEntityMounted /\ namedAcme) => answer'.dirty
       /\ (GetPatchOperations(TRUE) /\ newEntityMounted /\ namedAcme) =>
            answer'.ops = << [op |-> "add", path |-> "/name", value |-> "Acme"],
                            [op |-> "add", path |-> "/parentId", value |-> "null"] >>]_vars

\* C21: the new entity was named "Acme" and the patch was asked for: it adds
\* the name and the absent parent.
C21_Witness ==
    /\ newEntityMounted /\ namedAcme
    /\ answer.call = "getPatchOperations"
    /\ answer.ops = << [op |-> "add", path |-> "/name", value |-> "Acme"],
                       [op |-> "add", path |-> "/parentId", value |-> "null"] >>

\* C21: isDirty() was asked of the new entity form before any edit and
\* answered true.
C21_WitnessUnedited ==
    /\ newEntityMounted /\ unmodified
    /\ answer.call = "isDirty" /\ answer.dirty

\* C22 as stated, for the fields that have an initial value: after any
\* sequence of value assignments and reset() calls, a mounted field is dirty
\* if and only if its current value differs from its initial value; setting
\* a value and then the initial value again leaves the field not dirty.
C22_DirtyIffChanged ==
    \A x \in Fields :
        (instance[x] = "object" /\ initialValue[x] # undefined) =>
            (dirty[x] <=> value[x] # initialValue[x])

\* a < b on numbers: false as soon as one is NaN.
lessThan(a, b) == ~a.nan /\ ~b.nan /\ a.n < b.n

\* C23 as stated, the names compared as transform compares them: for every
\* input list the output of transform is sorted, each adjacent pair (a, b)
\* has a.order < b.order, or a.order equal to b.order and a.name <= b.name.
C23_OutputSorted ==
    resources.called =>
        \A k \in 1..(Len(resources.list) - 1) :
            LET a == resources.list[k]
                b == resources.list[k + 1]
            IN  \/ lessThan(a.order, b.order)
                \/ /\ strictEquals(a.order, b.order)
                   /\ localeCompare(String(a.name), String(b.name)) <= 0

\* The value that getOrder parses for the item.
orderSource(item) ==
    IF mapper.order = undefined THEN prop(item, "order") ELSE prop(item, mapper.order)

\* C24 as stated: for every item and every field descriptor, with or without
\* a declared order property, the order of the resource that the mapper
\* makes is a finite number, and a missing or non-numeric source value
\* yields 0.
C24_OrderFinite ==
    resources.called =>
        /\ \A k \in 1..Len(resources.list) : ~resources.list[k].order.nan
        /\ \A k \in 1..Len(items) :
                parseInt(orderSource(items[k])).nan => getOrder(items[k]) = Num(0)

\* The first of the values that is defined.
firstDefined(a, b, c) ==
    IF a # undefined THEN a ELSE IF b # undefined THEN b ELSE c

\* C25 as stated, for a descriptor without a target identity: when the item
\* lacks the declared value property but carries the identity property of
\* the schema, getIdentityValue(item) is the schema identity value; when it
\* has neither, it is the first defined of item.id, item.name, item.entity.
C25_IdentityFallbackChain ==
    (resources.called /\ mapper.targetIdentity = undefined) =>
        \A k \in 1..Len(items) :
            LET item == items[k]
                lacksValue == mapper.value = undefined \/ prop(item, mapper.value) = undefined
                carriesIdentity == mapper.identity # undefined
                                   /\ prop(item, mapper.identity) # undefined
            IN  /\ (lacksValue /\ carriesIdentity) =>
                        getIdentityValue(item) = prop(item, mapper.identity)
                /\ (lacksValue /\ ~carriesIdentity) =>
                        getIdentityValue(item) =
                            firstDefined(prop(item, "id"), prop(item, "name"),
                                         prop(item, "entity"))

noMappedField(pointer) == pointer \notin Fields /\ parentPointer(pointer) \notin Fields

\* C27: a request for a child context for a pointer that is no mapped field
\* and whose parent path is no mapped field either raises an error at the
\* call and makes no child context: the context at hand stays as it is.
C27_UnknownPointerThrows ==
    [][\A pointer \in ChildPointers, flag \in BOOLEAN :
            (/\ noMappedField(pointer)
             /\ \/ CreateChildFromPointer(pointer, flag)
                \/ CreateChildFromAgent(flag, pointer)) =>
                /\ answer'.error
                /\ UNCHANGED <<outerVars, formState>>]_vars

\* C27: a child was asked for the name, which the schema describes but the
\* office form does not map, and the call threw.
C27_Witness ==
    /\ answer.call = "createChildFromPointer" /\ answer.error /\ answer.pointer = "/name"
    /\ parent = <<>>
    /\ mapped = _mapSchemaToFieldsets(officeForm)

\* The quiet interval after the last change of a burst runs out in this step.
burstEnds == linked.burst /\ ~linked'.burst

\* Exactly one context, that of the values as they are, is handed to a fetch
\* in this step: the fetch starts or waits for the fetch under way.
oneFetch ==
    \/ /\ Len(promises') = Len(promises) + 1
       /\ promises'[Len(promises')].context = getLinkContext
       /\ linked'.queue = linked.queue
    \/ /\ promises' = promises
       /\ linked'.queue = Append(linked.queue, getLinkContext)

\* C28: whenever the quiet interval after a burst of changes of the fields of
\* the link template runs out, the stream hands exactly one context, that of
\* the values after the last change, to a fetch.
C28_EveryBurstFetchesOnce == [][burstEnds => oneFetch]_vars

\* The dynamic stream takes up a context in this step: concatMap subscribes
\* to its fetch.
refetches ==
    /\ linked.stream = "open"
    /\ linked'.active # null
    /\ linked'.active # linked.active \/ linked'.emitted # linked.emitted

\* The dynamic stream emits a list in this step.
emits == linked.stream = "open" /\ Len(linked'.emitted) = Len(linked.emitted) + 1

\* C29: a fetch of the dynamic stream is a new call of the agent with the
\* context of the fetch, whatever promise the provider had memoized and
\* whatever the cache holds for the link, and a list the stream emits comes
\* from the call that was made with the context of the list.
C29_RefetchBypassesCaches ==
    [][/\ refetches =>
            /\ linked'.active = Len(promises) + 1
            /\ Len(promises') = Len(promises) + 1
            /\ promises'[linked'.active].context = linked'.activeContext
            /\ promises'[linked'.active].status = "pending"
            /\ promises'[linked'.active].forced
       /\ emits =>
            LET list == linked'.emitted[Len(linked'.emitted)]
            IN  /\ list.promise = linked.active
                /\ list.fetched = list.context
                /\ promises[list.promise].status = "resolved"]_vars

\* C29 witness: the stream emitted the list of a second fetch, made for another
\* context than the first, while the cache still holds the promise of the
\* first fetch for the link.
C29_Witness ==
    \E k \in 1..Len(linked.emitted) :
        /\ linked.emitted[k].promise > 1
        /\ linked.emitted[k].context # promises[1].context
        /\ linked.stream = "open"
        /\ fetch(cache, linkedSchemaId, linkedLink, undefined) = 1

\* A component for the field is made in this step.
mounts(x) == instance[x] # "object" /\ instance'[x] = "object"

\* C30: in a context that was destroyed, a field that is mounted again is
\* reported on fieldReady$, so that the check behind ready$ is due, and the
\* change of a mounted field is validated and its fieldset handed to
\* fieldsetChanged$.
C30_ReusableAfterDestroy ==
    [][closed =>
        \A x \in Fields :
            /\ mounts(x) => readyTimer'
            /\ (FieldChanged(x) /\ instance[x] = "object") =>
                    /\ \/ fieldValidation'[x] = validateFieldAnswer(x)
                       \/ \E i \in 1..Len(pending') : pending'[i].field = x
                    /\ \E b \in buffer' : x \in {deref(b).fields[m] : m \in 1..Len(deref(b).fields)}]_vars

\* The fields of the visible fieldsets.
visibleFieldsOfSets ==
    UNION {{sets[i].fields[j] : j \in 1..Len(sets[i].fields)} : i \in 1..Len(sets)}

\* C31: extract called with visibleOnly true visits exactly the fields that
\* are visible now, and called with visibleOnly false it visits every mapped
\* field, the hidden ones as well.
C31_VisibleOnlyVisitsVisible ==
    [][\A visibleOnly \in BOOLEAN :
            Extract(visibleOnly) =>
                {answer'.data[k] : k \in 1..Len(answer'.data)} =
                    IF visibleOnly THEN visibleFieldsOfSets ELSE Fields]_vars

\* A call of resolveAgent, or of resolveAgentChild, for the link while a
\* promise is stored under the key of the call.
agentCalls(op, linkName, forceReload) ==
    IF op = "resolveAgent"
    THEN /\ memoizedAgent(agents, agentCacheKey("schemaA", linkName)) # null
         /\ \E found \in BOOLEAN : ResolveAgent("schemaA", linkName, forceReload, found)
    ELSE /\ memoizedAgent(agents, agentChildCacheKey("schemaA", linkName)) # null
         /\ \E forceResolveChild \in BOOLEAN :
                ResolveAgentChild("schemaA", linkName, forceReload, forceResolveChild)

agentKeyOf(op, linkName) ==
    IF op = "resolveAgent" THEN agentCacheKey("schemaA", linkName)
    ELSE agentChildCacheKey("schemaA", linkName)

agentOps == {"resolveAgent", "resolveAgentChild"}

\* C32 as stated: with forceReload false as with forceReload true a call goes
\* past the promise stored under its key, and a call of resolveAgent with
\* forceReload true stores the promise it made under the key.
C32_BothBypassMemo ==
    [][\A op \in agentOps, linkName \in AgentLinks, forceReload \in {"true", "false"} :
         agentCalls(op, linkName, forceReload)
             => LET key == agentKeyOf(op, linkName)
                IN  /\ agents'.call.promise # memoizedAgent(agents, key)
                    /\ (forceReload = "true" /\ op = "resolveAgent" /\ ~agents'.call.error
                            => memoizedAgent(agents', key) = agents'.call.promise)]_vars

\* What the calls do instead: with a promise stored under the key, a call with
\* forceReload false never answers with it, and what it stores is the promise
\* it answers with; a call with forceReload true or without forceReload
\* answers with the stored promise and makes and stores nothing.
onlyFalseBypassesMemo ==
    [][\A op \in agentOps, linkName \in AgentLinks, forceReload \in ForceReloads :
         agentCalls(op, linkName, forceReload)
             => LET key == agentKeyOf(op, linkName)
                IN  IF forceReload = "false"
                    THEN /\ agents'.call.promise # memoizedAgent(agents, key)
                         /\ IF agents'.call.stored
                            THEN memoizedAgent(agents', key) = agents'.call.promise
                            ELSE agents'.memo = agents.memo
                         /\ (op = "resolveAgent" /\ ~agents'.call.error
                                => agents'.call.stored)
                    ELSE /\ agents'.call.promise = memoizedAgent(agents, key)
                         /\ agents'.memo = agents.memo
                         /\ agents'.made = agents.made]_vars


\* The validateFieldset calls a step starts: one for every fieldset that
\* fieldsetChanged$ emits.
emittedRuns == {r \in RunIds : runs[r].phase = "free" /\ runs'[r].phase # "free"}

\* The fieldsets with a field that changed in the window, and the fieldsets of
\* sets whose pointer starts the pointer of one of them.
affectedFieldsets ==
    {b.set : b \in buffer}
        \cup {sets[j].id : j \in {i \in 1..Len(sets) :
                    \E b \in buffer : startsWith(deref(b).pointer, sets[i].pointer)}}

\* C33: at the end of a buffer window with a change of a visible field,
\* fieldsetChanged$ emits every fieldset with a changed field and every
\* visible fieldset above one of them exactly once, and nothing else.
C33_EachFieldsetOnce ==
    [][BufferTime =>
         /\ \A id \in affectedFieldsets :
                Cardinality({r \in emittedRuns : runs'[r].set = id}) = 1
         /\ \A r \in emittedRuns : runs'[r].set \in affectedFieldsets]_vars


\* The subscriber got a list, or the stream ended with an error, or a field
\* of the template changed just now.
firstList == linked.emitted # <<>> \/ linked.stream = "error" \/ linked.burst

\* C34: outside create mode a subscriber to the stream of a dynamic link gets
\* a first list in the end, unless a fetch fails, also when no field of the
\* template changes.
C34_FirstListWithoutChange ==
    (linked.stream \in {"open", "complete"} /\ ~isCreateMode) ~> firstList

\* What holds instead: the first list comes when the stream found a field of
\* the template to listen to.
firstListWhenObserved ==
    (linked.stream = "open" /\ ~isCreateMode) ~> firstList


\* C35: when validate() resolves, the step that takes duplicated errors off
\* leaves every invalid fieldset with another pointer than '/' invalid.
C35_DedupeTouchesRootOnly ==
    [][ValidateResolved =>
         \A i \in 1..Len(sets) :
            sets[i].pointer # "/" /\ ~sets[i].validation.valid
                => ~sets'[i].validation.valid]_vars


\* C36: an assignment of visible leaves every fieldset that was invalid in
\* sets, and is still in sets, invalid.
C36_VisibleKeepsValidation ==
    [][\A val \in {{}, {"/address/street"}} :
         SetVisible(val) =>
            \A i \in 1..Len(sets), j \in 1..Len(sets') :
                sets[i].id = sets'[j].id /\ ~sets[i].validation.valid
                    => ~sets'[j].validation.valid]_vars


\* The hidden fields whose component is dirty and holds a value that is not
\* left out of the data.
hiddenDirty ==
    {x \in Fields : /\ ~fieldVisible[x] /\ instance[x] = "object" /\ dirty[x]
                    /\ ~isUndefinedValue(x)}

\* C37: getPatchOperations() has an operation on a hidden dirty field exactly
\* when getChangedFieldData() has the value of the field.
C37_SameDirtyFields ==
    \A x \in hiddenDirty :
        (\E k \in 1..Len(getPatchOperations(TRUE)) : getPatchOperations(TRUE)[k].path = x)
            <=> has(getChangedFieldData, x)


\* The stream emits a list in this step.
listEmitted == Len(linked'.emitted) = Len(linked.emitted) + 1

\* C38: the lists of the stream come in the order of the contexts. A list is
\* the result of the fetch made for the context at hand; while that fetch is
\* under way no other is started and new contexts wait behind the waiting
\* ones; after the list the fetch for the context that waited longest starts.
C38_ListsInContextOrder ==
    [][/\ listEmitted =>
            LET list == linked'.emitted[Len(linked'.emitted)]
            IN  /\ list.context = linked.activeContext
                /\ list.fetched = linked.activeContext
                /\ list.promise = linked.active
                /\ \A k \in 1..Len(linked.emitted) : linked.emitted[k].promise < list.promise
                /\ linked.queue # <<>> =>
                        /\ linked'.activeContext = Head(linked.queue)
                        /\ linked'.queue = Tail(linked.queue)
                        /\ linked'.active > linked.active
       /\ (linked.active # null /\ linked'.active # linked.active) =>
                listEmitted \/ linked'.stream = "error"
       /\ Len(linked'.queue) > Len(linked.queue) =>
                /\ linked.active # null
                /\ SubSeq(linked'.queue, 1, Len(linked.queue)) = linked.queue
                /\ Len(linked'.queue) = Len(linked.queue) + 1]_vars

\* C38 witness: two lists for different contexts were emitted one after the
\* other, and a third context waits or got its list as well.
C38_Witness ==
    /\ Len(linked.emitted) >= 2
    /\ linked.emitted[1].context # linked.emitted[2].context
    /\ \/ linked.queue # <<>>
       \/ Len(linked.emitted) >= 3


\* The result of validating the field with the value it has now.
resultForValue(field) ==
    IF validateFieldNow(field) # Later THEN validateFieldNow(field)
    ELSE validateFieldLater(field)

\* C39: when the last of the on-change validations of a field settles, with
\* no change of the field still to be announced, the result stored on the
\* field is the one for the value the field has.
C39_LatestValueWins ==
    [][\A i \in 1..MaxPending :
         (/\ SettleFieldValidation(i)
          /\ pending[i].run = 0
          /\ pending[i].field \notin changePending
          /\ \A k \in 1..Len(pending) : k # i => pending[k].field # pending[i].field)
            => fieldValidation'[pending[i].field] = resultForValue(pending[i].field)]_vars


\* C40: ready$ emits true only when the value it emitted last was not true,
\* which at the start counts as false, and emits false only when the value
\* it emitted last was true; lastReadyState is the value emitted last, it
\* changes with an emission only.
C40_ReadyAlternates ==
    [][/\ readyEvent' = "true" => ~lastReadyState /\ lastReadyState'
       /\ readyEvent' = "false" => lastReadyState /\ ~lastReadyState'
       /\ readyEvent' = "none" => lastReadyState' = lastReadyState]_vars

\* C40 witness: ready$ has just emitted false, after the true it emitted
\* when the fields were mounted, and a field has lost its component.
C40_Witness ==
    /\ readyEvent = "false"
    /\ ~lastReadyState
    /\ \E x \in VisibleFields : instance[x] # "object"

====
